---------------------------- MODULE Spec2Model ----------------------------
(***************************************************************************)
(* A model of the normalisation engine of HelixLauncher/meta:              *)
(*   - GradleSpecifier parsing and formatting   (helix-meta/src/util.rs)   *)
(*   - rules::evaluate_rules_os_name            (src/mojang.rs)            *)
(*   - process_version, library by library      (src/mojang.rs)            *)
(*   - the game arguments of process_version    (src/mojang.rs)            *)
(*   - process, the batch over the version files (src/mojang.rs)           *)
(* Rust Strings are TLA+ strings; Option<T> is a sequence of length 0      *)
(* (None) or 1 (Some); Result<T, E> is a pair <<"Ok", v>> or <<"Err", e>>. *)
(***************************************************************************)
EXTENDS Integers, Sequences, FiniteSets, TLC

VARIABLES
    \* GradleSpecifier round trip
    coord,          \* the GradleSpecifier being formatted
    text,           \* Option<String>: the result of Display::fmt
    parsed,         \* Option<Result<GradleSpecifier, GradleParseError>>
    \* rule evaluation
    rules_in,       \* the rule list handed to evaluate_rules_os_name
    rules_out,      \* Option<Result<Vec<OsName>, Error>>
    \* process_version
    pc,             \* position in process_version
    error,          \* Option<String>: the error process_version returned
    version,        \* the deserialized MojangVersion (the fields modelled)
    downloads,      \* IndexMap<GradleSpecifier, Download>, in insertion order
    classpath,      \* IndexSet<ConditionalClasspathEntry>, in insertion order
    natives,        \* IndexSet<Native>, in insertion order
    is_lwjgl3,
    lib_in,         \* Option<MojangLibrary>: the current library as deserialized
    library,        \* Option<MojangLibrary>: the current library, as mutated
    ignore_rules,
    platform,       \* Option<Platform> of the current library
    nat_i,          \* index of the current entry of library.natives
    nat_k,          \* process_native calls already made for that entry
    n_libs,         \* libraries taken from version.libraries so far
    last_add,       \* the branch the last add_download call took
    component,      \* Option<Component>: the assembled component
    seen,           \* the libraries of version.libraries iterated so far
    \* process
    dir,            \* the files of upstream/mojang/versions, in read_dir order
    file_i,         \* the number of files taken from the directory
    index,          \* helix::index::Index
    batch_pc,       \* position in process
    batch_error,    \* Option<String>: the error process returned
    index_json      \* Option<Index>: out/net.minecraft/index.json

gradle_vars == <<coord, text, parsed>>
rules_vars == <<rules_in, rules_out>>
process_vars == <<pc, error, version, downloads, classpath, natives, is_lwjgl3,
                  lib_in, library, ignore_rules, platform, nat_i, nat_k, n_libs,
                  last_add, component, seen>>
batch_vars == <<dir, file_i, index, batch_pc, batch_error, index_json>>
vars == <<gradle_vars, rules_vars, process_vars, batch_vars>>

---------------------------------------------------------------------------
\* Option and Result

None == <<>>
Some(x) == <<x>>
IsSome(o) == o /= <<>>
IsNone(o) == o = <<>>
Unwrap(o) == o[1]

Ok(v) == <<"Ok", v>>
Err(e) == <<"Err", e>>
IsOk(r) == r[1] = "Ok"
IsErr(r) == r[1] = "Err"

---------------------------------------------------------------------------
\* str operations of the Rust standard library used by the code

\* str::contains(pat)
Contains(s, pat) ==
    \E i \in 1..(Len(s) + 1) :
        /\ i + Len(pat) - 1 <= Len(s)
        /\ SubSeq(s, i, i + Len(pat) - 1) = pat

\* str::starts_with(pat)
StartsWith(s, pat) == Len(pat) <= Len(s) /\ SubSeq(s, 1, Len(pat)) = pat

\* str::find(pat) for a non-empty pattern: the first index, or 0
Find(s, pat) ==
    LET hits == {i \in 1..Len(s) :
                    /\ i + Len(pat) - 1 <= Len(s)
                    /\ SubSeq(s, i, i + Len(pat) - 1) = pat}
    IN  IF hits = {} THEN 0 ELSE CHOOSE i \in hits : \A j \in hits : i <= j

\* str::rfind(pat) for a non-empty pattern: the last index, or 0
RFind(s, pat) ==
    LET hits == {i \in 1..Len(s) :
                    /\ i + Len(pat) - 1 <= Len(s)
                    /\ SubSeq(s, i, i + Len(pat) - 1) = pat}
    IN  IF hits = {} THEN 0 ELSE CHOOSE i \in hits : \A j \in hits : j <= i

\* str::split_once(delimiter): Option<(before, after)>
split_once(s, d) ==
    LET i == Find(s, d)
    IN  IF i = 0 THEN None
        ELSE Some(<<SubSeq(s, 1, i - 1), SubSeq(s, i + Len(d), Len(s))>>)

\* str::rsplit_once(delimiter): Option<(before, after)>
rsplit_once(s, d) ==
    LET i == RFind(s, d)
    IN  IF i = 0 THEN None
        ELSE Some(<<SubSeq(s, 1, i - 1), SubSeq(s, i + Len(d), Len(s))>>)

\* str::replace(from, to): every non-overlapping match, left to right
RECURSIVE replace(_, _, _)
replace(s, from, to) ==
    LET i == Find(s, from)
    IN  IF i = 0 THEN s
        ELSE SubSeq(s, 1, i - 1) \o to
                \o replace(SubSeq(s, i + Len(from), Len(s)), from, to)

---------------------------------------------------------------------------
\* GradleSpecifier (helix-meta/src/util.rs)

GradleSpecifier(g, a, v, c, e) ==
    [group |-> g, artifact |-> a, version |-> v, classifier |-> c, extension |-> e]

with_classifier(self, classifier) ==
    [self EXCEPT !.classifier = Some(classifier)]

\* from_str with the extension split off at the first '@' instead of the last
from_str_first_at(s) ==
    LET first == split_once(s, ":")
    IN  IF IsNone(first) THEN Err("ArtifactIdMissing")
        ELSE
        LET group == Unwrap(first)[1]
            s1 == Unwrap(first)[2]
            second == split_once(s1, ":")
        IN  IF IsNone(second) THEN Err("VersionMissing")
            ELSE
            LET artifact == Unwrap(second)[1]
                s2 == Unwrap(second)[2]
                at == split_once(s2, "@")
                s3 == IF IsNone(at) THEN s2 ELSE Unwrap(at)[1]
                extension == IF IsNone(at) THEN "jar" ELSE Unwrap(at)[2]
                colon == split_once(s3, ":")
                ver == IF IsNone(colon) THEN s3 ELSE Unwrap(colon)[1]
                classifier == IF IsNone(colon) THEN None
                              ELSE Some(Unwrap(colon)[2])
            IN  Ok(GradleSpecifier(group, artifact, ver, classifier, extension))

\* <GradleSpecifier as FromStr>::from_str
from_str(s) ==
    LET first == split_once(s, ":")
    IN  IF IsNone(first) THEN Err("ArtifactIdMissing")
        ELSE
        LET group == Unwrap(first)[1]
            s1 == Unwrap(first)[2]
            second == split_once(s1, ":")
        IN  IF IsNone(second) THEN Err("VersionMissing")
            ELSE
            LET artifact == Unwrap(second)[1]
                s2 == Unwrap(second)[2]
                at == rsplit_once(s2, "@")
                s3 == IF IsNone(at) THEN s2 ELSE Unwrap(at)[1]
                extension == IF IsNone(at) THEN "jar" ELSE Unwrap(at)[2]
                colon == split_once(s3, ":")
                ver == IF IsNone(colon) THEN s3 ELSE Unwrap(colon)[1]
                classifier == IF IsNone(colon) THEN None
                              ELSE Some(Unwrap(colon)[2])
            IN  Ok(GradleSpecifier(group, artifact, ver, classifier, extension))

\* <GradleSpecifier as Display>::fmt
fmt(self) ==
    self.group \o ":" \o self.artifact \o ":" \o self.version
        \o (IF IsSome(self.classifier) THEN ":" \o Unwrap(self.classifier) ELSE "")
        \o (IF self.extension /= "jar" THEN "@" \o self.extension ELSE "")

---------------------------------------------------------------------------
\* Inputs of the round trip: fields over an alphabet that holds both delimiters

MaxLen == 1

Alphabet == {"a", ":", "@"}

RECURSIVE StringsUpTo(_)
StringsUpTo(n) ==
    IF n = 0 THEN {""}
    ELSE LET S == StringsUpTo(n - 1)
         IN  S \cup {s \o c : s \in S, c \in Alphabet}

GroupNames == {"g", ":", "@", "a:b"}
ArtifactNames == {"m", ":", "@"}
FieldStrings == StringsUpTo(MaxLen)

Coordinates ==
    {GradleSpecifier(g, a, v, c, e) :
        g \in GroupNames, a \in ArtifactNames, v \in FieldStrings,
        c \in {None} \cup {Some(x) : x \in FieldStrings},
        e \in FieldStrings \cup {"jar"}}

IdleGradle ==
    /\ coord = GradleSpecifier("", "", "", None, "jar")
    /\ text = None
    /\ parsed = None

InitGradle ==
    /\ coord \in Coordinates
    /\ text = None
    /\ parsed = None

\* c.to_string()
Format ==
    /\ IsNone(text)
    /\ text' = Some(fmt(coord))
    /\ UNCHANGED <<coord, parsed>>
    /\ UNCHANGED <<rules_vars, process_vars, batch_vars>>

\* text.parse::<GradleSpecifier>()
Parse ==
    /\ IsSome(text)
    /\ IsNone(parsed)
    /\ parsed' = Some(from_str(Unwrap(text)))
    /\ UNCHANGED <<coord, text>>
    /\ UNCHANGED <<rules_vars, process_vars, batch_vars>>

---------------------------------------------------------------------------
\* Rules (src/mojang.rs)

OsNames == <<"Linux", "Osx", "Windows">>
OsNameSet == {"Linux", "Osx", "Windows"}

OsRule(name, ver, arch) == [name |-> name, version |-> ver, arch |-> arch]

FeaturesRule(demo, resolution, quick_plays, singleplayer, multiplayer, realms) ==
    [is_demo_user |-> demo, has_custom_resolution |-> resolution,
     has_quick_plays_support |-> quick_plays,
     is_quick_play_singleplayer |-> singleplayer,
     is_quick_play_multiplayer |-> multiplayer,
     is_quick_play_realms |-> realms]

Rule(features, os, action) == [features |-> features, os |-> os, action |-> action]

\* Rule::is_always_allow without the test of self.features
is_always_allow_ignoring_features(self) ==
    IF self.action = "Allow" THEN IsNone(self.os) ELSE FALSE

\* Rule::is_always_allow
is_always_allow(self) ==
    IF self.action = "Allow" THEN IsNone(self.features) /\ IsNone(self.os)
    ELSE FALSE

\* the inner loop of evaluate_rules_os_name with `allow |= ...` in place of
\* `allow = ...`
RECURSIVE eval_os_accumulating(_, _, _, _)
eval_os_accumulating(rules, current_os, i, allow) ==
    IF i > Len(rules) THEN Ok(allow)
    ELSE
    LET rule == rules[i]
    IN  IF IsSome(rule.os) /\ IsSome(Unwrap(rule.os).arch)
        THEN Err("os.arch")
        ELSE IF IsSome(rule.os) /\ IsSome(Unwrap(rule.os).version)
        THEN Err("os.version")
        ELSE IF /\ IsSome(rule.os)
                /\ IsSome(Unwrap(rule.os).name)
                /\ Unwrap(Unwrap(rule.os).name) /= current_os
        THEN eval_os_accumulating(rules, current_os, i + 1, allow)
        ELSE IF IsSome(rule.features)
        THEN Err("features")
        ELSE eval_os_accumulating(rules, current_os, i + 1,
                                  allow \/ rule.action = "Allow")

\* the inner loop of evaluate_rules_os_name with the features test moved
\* before the OS name test
RECURSIVE eval_os_features_first(_, _, _, _)
eval_os_features_first(rules, current_os, i, allow) ==
    IF i > Len(rules) THEN Ok(allow)
    ELSE
    LET rule == rules[i]
    IN  IF IsSome(rule.features)
        THEN Err("features")
        ELSE IF IsSome(rule.os) /\ IsSome(Unwrap(rule.os).arch)
        THEN Err("os.arch")
        ELSE IF IsSome(rule.os) /\ IsSome(Unwrap(rule.os).version)
        THEN Err("os.version")
        ELSE IF /\ IsSome(rule.os)
                /\ IsSome(Unwrap(rule.os).name)
                /\ Unwrap(Unwrap(rule.os).name) /= current_os
        THEN eval_os_features_first(rules, current_os, i + 1, allow)
        ELSE eval_os_features_first(rules, current_os, i + 1,
                                    rule.action = "Allow")

\* evaluate_rules_os_name: `for rule in rules { ... }` for one current_os,
\* from rule i on; Ok(allow) at the end of the list, Err at the first return
RECURSIVE eval_os(_, _, _, _)
eval_os(rules, current_os, i, allow) ==
    IF i > Len(rules) THEN Ok(allow)
    ELSE
    LET rule == rules[i]
    IN  IF IsSome(rule.os) /\ IsSome(Unwrap(rule.os).arch)
        THEN Err("os.arch")
        ELSE IF IsSome(rule.os) /\ IsSome(Unwrap(rule.os).version)
        THEN Err("os.version")
        ELSE IF /\ IsSome(rule.os)
                /\ IsSome(Unwrap(rule.os).name)
                /\ Unwrap(Unwrap(rule.os).name) /= current_os
        THEN eval_os(rules, current_os, i + 1, allow)         \* continue
        ELSE IF IsSome(rule.features)
        THEN Err("features")
        ELSE eval_os(rules, current_os, i + 1, rule.action = "Allow")

\* evaluate_rules_os_name: `for current_os in [Linux, Osx, Windows] { ... }`
RECURSIVE eval_from(_, _, _)
eval_from(rules, oses, result) ==
    IF oses = <<>> THEN Ok(result)
    ELSE
    LET r == eval_os(rules, Head(oses), 1, FALSE)
    IN  IF IsErr(r) THEN r
        ELSE eval_from(rules, Tail(oses),
                       IF r[2] THEN Append(result, Head(oses)) ELSE result)

\* rules::evaluate_rules_os_name
evaluate_rules_os_name(rules) == eval_from(rules, OsNames, <<>>)

---------------------------------------------------------------------------
\* Inputs of the rule evaluation

MaxRules == 2

NoFeatures == FeaturesRule(None, None, None, None, None, None)
DemoFeatures == FeaturesRule(Some(TRUE), None, None, None, None, None)

OsRules ==
    {OsRule(n, v, a) :
        n \in {None} \cup {Some(o) : o \in OsNameSet},
        v \in {None, Some("^10\\.")},
        a \in {None, Some("x86")}}

Rules ==
    {Rule(f, o, act) :
        f \in {None, Some(DemoFeatures)},
        o \in {None} \cup {Some(r) : r \in OsRules},
        act \in {"Allow", "Disallow"}}

RECURSIVE ListsUpTo(_, _)
ListsUpTo(S, n) ==
    IF n = 0 THEN {<<>>}
    ELSE LET L == ListsUpTo(S, n - 1)
         IN  L \cup {Append(l, x) : l \in L, x \in S}

IdleRules ==
    /\ rules_in = <<>>
    /\ rules_out = None

InitRules ==
    /\ rules_in \in ListsUpTo(Rules, MaxRules)
    /\ rules_out = None

\* a call of rules::evaluate_rules_os_name
Evaluate ==
    /\ IsNone(rules_out)
    /\ rules_out' = Some(evaluate_rules_os_name(rules_in))
    /\ UNCHANGED rules_in
    /\ UNCHANGED <<gradle_vars, process_vars, batch_vars>>

---------------------------------------------------------------------------
\* Maven3ArtifactVersion (the maven_version crate), for versions of the form
\* <number>(.<number>)*[-<qualifier><number>]: Maven's ComparableVersion order

Digits == <<"0", "1", "2", "3", "4", "5", "6", "7", "8", "9">>

DigitValue(c) == (CHOOSE i \in 1..10 : Digits[i] = c) - 1

IsDigit(c) == \E i \in 1..10 : Digits[i] = c

RECURSIVE ParseInt(_)
ParseInt(s) ==
    IF s = "" THEN 0
    ELSE ParseInt(SubSeq(s, 1, Len(s) - 1)) * 10
            + DigitValue(SubSeq(s, Len(s), Len(s)))

\* the numeric items of a dotted number list
RECURSIVE ParseNumbers(_)
ParseNumbers(s) ==
    LET dot == split_once(s, ".")
    IN  IF IsNone(dot) THEN <<ParseInt(s)>>
        ELSE <<ParseInt(Unwrap(dot)[1])>> \o ParseNumbers(Unwrap(dot)[2])

\* trailing zero items are dropped ("2.8.0" and "2.8" are the same version)
RECURSIVE TrimZeros(_)
TrimZeros(ns) ==
    IF ns /= <<>> /\ ns[Len(ns)] = 0 THEN TrimZeros(SubSeq(ns, 1, Len(ns) - 1))
    ELSE ns

\* the rank of a qualifier: alpha < beta < milestone < rc < snapshot < "" < sp
QualifierRank(q) ==
    CASE q = "alpha" -> 0
      [] q = "beta" -> 1
      [] q = "milestone" -> 2
      [] q = "rc" -> 3
      [] q = "snapshot" -> 4
      [] q = "" -> 5
      [] OTHER -> 6

\* the length of the longest prefix of s without a digit
RECURSIVE AlphaPrefixLen(_)
AlphaPrefixLen(s) ==
    IF s = "" \/ IsDigit(SubSeq(s, 1, 1)) THEN 0
    ELSE 1 + AlphaPrefixLen(SubSeq(s, 2, Len(s)))

\* Maven3ArtifactVersion::new
Maven3ArtifactVersion(s) ==
    LET dash == split_once(s, "-")
        numbers == IF IsNone(dash) THEN s ELSE Unwrap(dash)[1]
        qualifier == IF IsNone(dash) THEN "" ELSE Unwrap(dash)[2]
        k == AlphaPrefixLen(qualifier)
    IN  [numbers |-> TrimZeros(ParseNumbers(numbers)),
         rank |-> QualifierRank(SubSeq(qualifier, 1, k)),
         build |-> ParseInt(SubSeq(qualifier, k + 1, Len(qualifier)))]

\* the order of two number lists, the shorter padded with zeros: -1, 0 or 1
RECURSIVE CompareNumbers(_, _)
CompareNumbers(a, b) ==
    IF a = <<>> /\ b = <<>> THEN 0
    ELSE
    LET x == IF a = <<>> THEN 0 ELSE Head(a)
        y == IF b = <<>> THEN 0 ELSE Head(b)
    IN  IF x < y THEN -1
        ELSE IF x > y THEN 1
        ELSE CompareNumbers(IF a = <<>> THEN a ELSE Tail(a),
                            IF b = <<>> THEN b ELSE Tail(b))

\* <Maven3ArtifactVersion as Ord>::cmp
version_cmp(a, b) ==
    LET c == CompareNumbers(a.numbers, b.numbers)
    IN  IF c /= 0 THEN c
        ELSE IF a.rank /= b.rank THEN (IF a.rank < b.rank THEN -1 ELSE 1)
        ELSE IF a.build < b.build THEN -1
        ELSE IF a.build > b.build THEN 1
        ELSE 0

OLDEST_UPGRADE_VERSION == Maven3ArtifactVersion("2.8.0")
NEWEST_UPGRADE_VERSION == Maven3ArtifactVersion("2.17.0")

---------------------------------------------------------------------------
\* The data process_version works on (src/mojang.rs, helixlauncher-meta)

MojangDownload(sha1, size, url) == [sha1 |-> sha1, size |-> size, url |-> url]

MojangLibraryArtifact(path, sha1, size, url) ==
    [path |-> path, sha1 |-> sha1, size |-> size, url |-> url]

\* classifiers: IndexMap<String, MojangLibraryArtifact>, a function of its keys
MojangLibraryDownloads(artifact, classifiers) ==
    [artifact |-> artifact, classifiers |-> classifiers]

\* natives: IndexMap<OsName, String>, the sequence of its (os, classifier) pairs
MojangLibrary(name, downloads_, rules, exclude, natives_) ==
    [name |-> name, downloads |-> downloads_, rules |-> rules,
     extract |-> [exclude |-> exclude], natives |-> natives_]

\* a version without game arguments
MojangVersion(id, inherits_from, downloads_) ==
    [id |-> id, inherits_from |-> inherits_from, downloads |-> downloads_,
     arguments |-> None, minecraft_arguments |-> None, type |-> "release",
     release_time |-> 0]

SHA1(hash) == <<"SHA1", hash>>

Download(name, url, size, hash) ==
    [name |-> name, url |-> url, size |-> size, hash |-> hash]

Platform(os, arch) == [os |-> os, arch |-> arch]

Native(name, platform_, exclusions) ==
    [name |-> name, platform |-> platform_, exclusions |-> exclusions]

\* ConditionalClasspathEntry::All and ::PlatformSpecific
All(name) == <<"All", name>>
PlatformSpecific(name, platform_) == <<"PlatformSpecific", name, platform_>>

\* IndexMap: the sequence of its (key, value) pairs in insertion order
contains_key(map, key) == \E i \in 1..Len(map) : map[i][1] = key

index_of(map, key) == CHOOSE i \in 1..Len(map) : map[i][1] = key

get(map, key) == map[index_of(map, key)][2]

\* IndexMap::insert: a new key goes last, a present key keeps its place and
\* takes the new value
insert(map, key, value) ==
    IF contains_key(map, key)
    THEN [map EXCEPT ![index_of(map, key)] = <<key, value>>]
    ELSE Append(map, <<key, value>>)

\* IndexMap::into_values
into_values(map) == [i \in 1..Len(map) |-> map[i][2]]

\* IndexSet::insert: a new value goes last, a present one changes nothing
set_insert(set, value) ==
    IF \E i \in 1..Len(set) : set[i] = value THEN set ELSE Append(set, value)

game_artifact_name(v) ==
    GradleSpecifier("com.mojang", "minecraft", v.id, Some("client"), "jar")

---------------------------------------------------------------------------
\* process_version: the steps of the loop over version.libraries

\* the ensure! on the shape of library.rules
rules_shape_ok(rules) ==
    \/ Len(rules) <= 1
    \/ (is_always_allow(rules[1]) /\ Len(rules) <= 2)

\* the range test with the upper bound included
in_upgrade_range_upper_inclusive(parsed_version) ==
    /\ version_cmp(OLDEST_UPGRADE_VERSION, parsed_version) <= 0
    /\ version_cmp(parsed_version, NEWEST_UPGRADE_VERSION) <= 0

\* *OLDEST_UPGRADE_VERSION <= parsed_version
\*     && parsed_version < *NEWEST_UPGRADE_VERSION
in_upgrade_range(parsed_version) ==
    /\ version_cmp(OLDEST_UPGRADE_VERSION, parsed_version) <= 0
    /\ version_cmp(parsed_version, NEWEST_UPGRADE_VERSION) < 0

\* the closure log4j_url
log4j_url(maven, module, ver) ==
    "https://" \o maven \o "/org/apache/logging/log4j/" \o module \o "/"
        \o ver \o "/" \o module \o "-" \o ver \o ".jar"

\* the table with the 2.0-beta9 row holding the values of the 2.0-rc2 row
log4j_table_beta9_as_rc2(artifact, ver) ==
    CASE artifact = "log4j-core" /\ ver = "2.17.0" ->
            Some(<<"fe6e7a32c1228884b9691a744f953a55d0dd8ead", 1789339>>)
      [] artifact = "log4j-slf4j18-impl" /\ ver = "2.17.0" ->
            Some(<<"bd7f6c0b9224dd214afb4e684957e2349b529a8d", 21244>>)
      [] artifact = "log4j-api" /\ ver = "2.17.0" ->
            Some(<<"bbd791e9c8c9421e45337c4fe0a10851c086e36c", 301776>>)
      [] artifact = "log4j-core" /\ ver \in {"2.0-beta9", "2.0-rc2"} ->
            Some(<<"4ffd3e05eebaf965199d0b54d3cd8f8e342c9c08", 765649>>)
      [] OTHER -> None

\* the match on (artifact, version): Some((sha1, size)), or None for todo!()
log4j_table(artifact, ver) ==
    CASE artifact = "log4j-core" /\ ver = "2.17.0" ->
            Some(<<"fe6e7a32c1228884b9691a744f953a55d0dd8ead", 1789339>>)
      [] artifact = "log4j-slf4j18-impl" /\ ver = "2.17.0" ->
            Some(<<"bd7f6c0b9224dd214afb4e684957e2349b529a8d", 21244>>)
      [] artifact = "log4j-api" /\ ver = "2.17.0" ->
            Some(<<"bbd791e9c8c9421e45337c4fe0a10851c086e36c", 301776>>)
      [] artifact = "log4j-core" /\ ver = "2.0-beta9" ->
            Some(<<"db59ef51488f7ea6a2fd1a0bd8d862cf95f02b7a", 677741>>)
      [] artifact = "log4j-core" /\ ver = "2.0-rc2" ->
            Some(<<"4ffd3e05eebaf965199d0b54d3cd8f8e342c9c08", 765649>>)
      [] OTHER -> None

\* `if changed_log4j { if let Some(artifact) = &mut library.downloads.artifact
\* { ... } }` with the url, and the row of the table, computed by the caller
patch_artifact(lib, changed_log4j, url, row) ==
    IF ~(changed_log4j /\ IsSome(lib.downloads.artifact))
    THEN [library |-> lib, panicked |-> FALSE]
    ELSE IF IsNone(row)
    THEN [library |->
            [lib EXCEPT !.downloads.artifact = Some([Unwrap(@) EXCEPT !.url = url])],
          panicked |-> TRUE]
    ELSE [library |->
            [lib EXCEPT !.downloads.artifact =
                Some([Unwrap(@) EXCEPT !.url = url,
                                       !.sha1 = Unwrap(row)[1],
                                       !.size = Unwrap(row)[2]])],
          panicked |-> FALSE]

\* the log4j block from changed_log4j on: lib is the library with its version
\* already rewritten when it was in the range
patch_changed(lib, changed_log4j) ==
    patch_artifact(lib, changed_log4j,
                   log4j_url(IF lib.name.version = "2.17.0"
                             THEN "libraries.minecraft.net"
                             ELSE "files.helixlauncher.dev/maven",
                             lib.name.artifact, lib.name.version),
                   log4j_table(lib.name.artifact, lib.name.version))

\* the log4j block from the range test on: upgraded is its outcome
patch_upgraded(lib, upgraded) ==
    patch_changed(IF upgraded THEN [lib EXCEPT !.name.version = "2.17.0"] ELSE lib,
                  \/ upgraded
                  \/ /\ lib.name.artifact = "log4j-core"
                     /\ lib.name.version \in {"2.0-rc2", "2.0-beta9"})

\* `if library.name.artifact.contains("log4j") { ... }`: the library as
\* mutated, and whether todo!() was reached
patch_log4j(lib) ==
    IF ~Contains(lib.name.artifact, "log4j")
    THEN [library |-> lib, panicked |-> FALSE]
    ELSE patch_upgraded(lib,
                        in_upgrade_range(Maven3ArtifactVersion(lib.name.version)))

\* the LWJGL block without the test that sets ignore_rules
lwjgl_rules_never_ignoring(lib) ==
    [is_lwjgl3 |-> /\ StartsWith(lib.name.group, "org.lwjgl")
                   /\ StartsWith(lib.name.version, "3."),
     ignore_rules |-> FALSE,
     skip |->
        /\ StartsWith(lib.name.group, "org.lwjgl")
        /\ Len(lib.rules) = 1
        /\ lib.rules[1].action = "Allow"
        /\ IsSome(lib.rules[1].os)
        /\ IsSome(Unwrap(lib.rules[1].os).name)
        /\ ~(/\ IsSome(lib.name.classifier)
             /\ Contains(Unwrap(lib.name.classifier), "natives"))]

\* the LWJGL block without the test that runs `continue`
lwjgl_rules_never_skipping(lib) ==
    [is_lwjgl3 |-> /\ StartsWith(lib.name.group, "org.lwjgl")
                   /\ StartsWith(lib.name.version, "3."),
     ignore_rules |->
        /\ StartsWith(lib.name.group, "org.lwjgl")
        /\ Len(lib.rules) = 2
        /\ is_always_allow(lib.rules[1])
        /\ lib.rules[2].action = "Disallow"
        /\ IsSome(lib.rules[2].os)
        /\ IsSome(Unwrap(lib.rules[2].os).name),
     skip |-> FALSE]

\* `if library.name.group.starts_with("org.lwjgl") { ... }`
lwjgl_rules(lib) ==
    LET family == StartsWith(lib.name.group, "org.lwjgl")
        rules == lib.rules
    IN  [is_lwjgl3 |-> family /\ StartsWith(lib.name.version, "3."),
         ignore_rules |->
            /\ family
            /\ Len(rules) = 2
            /\ is_always_allow(rules[1])
            /\ rules[2].action = "Disallow"
            /\ IsSome(rules[2].os)
            /\ IsSome(Unwrap(rules[2].os).name),
         skip |->
            /\ family
            /\ Len(rules) = 1
            /\ rules[1].action = "Allow"
            /\ IsSome(rules[1].os)
            /\ IsSome(Unwrap(rules[1].os).name)
            /\ ~(/\ IsSome(lib.name.classifier)
                 /\ Contains(Unwrap(lib.name.classifier), "natives"))]

\* the platform without the short cut for ignored or empty rules
compute_platform_always_evaluating(lib, ignore) ==
    IF IsErr(evaluate_rules_os_name(lib.rules))
    THEN evaluate_rules_os_name(lib.rules)
    ELSE Ok(Some(Platform(evaluate_rules_os_name(lib.rules)[2], None)))

\* `let platform = if ignore_rules || library.rules.is_empty() { None } ...`:
\* Result<Option<Platform>, Error>
compute_platform(lib, ignore) ==
    IF ignore \/ lib.rules = <<>> THEN Ok(None)
    ELSE
    LET os == evaluate_rules_os_name(lib.rules)
    IN  IF IsErr(os) THEN os ELSE Ok(Some(Platform(os[2], None)))

\* add_download without the contains_key test: it always inserts
add_download_overwriting(map, name, artifact) ==
    [result |-> Ok(insert(map, name,
                          Download(name, artifact.url, artifact.size,
                                   SHA1(artifact.sha1)))),
     branch |-> "inserted"]

\* add_download with a contains_key test that never finds the key
add_download_appending(map, name, artifact) ==
    [result |-> Ok(Append(map, <<name, Download(name, artifact.url, artifact.size,
                                                SHA1(artifact.sha1))>>)),
     branch |-> "inserted"]

\* the closure add_download: the ledger it leaves (Err when the ensure! fails)
\* and the branch it took
add_download(map, name, artifact) ==
    IF contains_key(map, name)
    THEN IF /\ get(map, name).hash[1] = "SHA1"
            /\ get(map, name).hash[2] = artifact.sha1
         THEN [result |-> Ok(map), branch |-> "present"]
         ELSE [result |-> Err("Condition failed: downloads[name].hash"),
               branch |-> "mismatch"]
    ELSE [result |-> Ok(insert(map, name,
                               Download(name, artifact.url, artifact.size,
                                        SHA1(artifact.sha1)))),
          branch |-> "inserted"]


\* the process_native calls of one entry of library.natives with only the
\* 64-bit call for a templated classifier
native_calls_without_32(classifier) ==
    IF Contains(classifier, "${arch}")
    THEN << <<replace(classifier, "${arch}", "64"), Some("X86_64")>> >>
    ELSE << <<classifier, None>> >>

\* the process_native calls made for one entry of library.natives, in order:
\* (classifier, arch) pairs
native_calls(classifier) ==
    IF Contains(classifier, "${arch}")
    THEN << <<replace(classifier, "${arch}", "32"), Some("X86")>>,
            <<replace(classifier, "${arch}", "64"), Some("X86_64")>> >>
    ELSE << <<classifier, None>> >>

\* the test of the natives loop with a closure that is always true
platform_admits_every_os(platform_, os) == TRUE

\* `platform.as_ref().map_or(true, |platform| platform.os.contains(os))`
platform_admits(platform_, os) ==
    \/ IsNone(platform_)
    \/ \E j \in 1..Len(Unwrap(platform_).os) : Unwrap(platform_).os[j] = os

\* process_native without the ensure! on the '$' of the classifier
process_native_unchecked(map, set, lib, os, classifier, arch) ==
    IF classifier \notin DOMAIN lib.downloads.classifiers
    THEN [result |-> Err(classifier \o " on " \o fmt(lib.name) \o " does not exist"),
          branch |-> "none"]
    ELSE IF IsErr(add_download(map, with_classifier(lib.name, classifier),
                               lib.downloads.classifiers[classifier]).result)
    THEN add_download(map, with_classifier(lib.name, classifier),
                      lib.downloads.classifiers[classifier])
    ELSE [result |->
            Ok(<<add_download(map, with_classifier(lib.name, classifier),
                              lib.downloads.classifiers[classifier]).result[2],
                 set_insert(set, Native(with_classifier(lib.name, classifier),
                                        Platform(<<os>>, arch),
                                        lib.extract.exclude))>>),
          branch |-> add_download(map, with_classifier(lib.name, classifier),
                                  lib.downloads.classifiers[classifier]).branch]

\* process_native without its add_download call: the native is recorded, the
\* ledger is left as it is
process_native_without_download(map, set, lib, os, classifier, arch) ==
    IF Contains(classifier, "$")
    THEN [result |-> Err("Unresolved classifier pattern in " \o classifier),
          branch |-> "none"]
    ELSE IF classifier \notin DOMAIN lib.downloads.classifiers
    THEN [result |-> Err(classifier \o " on " \o fmt(lib.name) \o " does not exist"),
          branch |-> "none"]
    ELSE [result |->
            Ok(<<map,
                 set_insert(set, Native(with_classifier(lib.name, classifier),
                                        Platform(<<os>>, arch),
                                        lib.extract.exclude))>>),
          branch |-> "none"]

\* the closure process_native: the ledger and the native set it leaves (Err at
\* the first `?` that fails) and the branch add_download took
process_native(map, set, lib, os, classifier, arch) ==
    IF Contains(classifier, "$")
    THEN [result |-> Err("Unresolved classifier pattern in " \o classifier),
          branch |-> "none"]
    ELSE IF classifier \notin DOMAIN lib.downloads.classifiers
    THEN [result |-> Err(classifier \o " on " \o fmt(lib.name) \o " does not exist"),
          branch |-> "none"]
    ELSE
    LET name == with_classifier(lib.name, classifier)
        added == add_download(map, name, lib.downloads.classifiers[classifier])
    IN  IF IsErr(added.result) THEN added
        ELSE [result |->
                Ok(<<added.result[2],
                     set_insert(set, Native(name, Platform(<<os>>, arch),
                                            lib.extract.exclude))>>),
              branch |-> added.branch]

---------------------------------------------------------------------------
\* process_version: the game arguments

\* the characters of the class [a-zA-Z0-9_] of VAR_PATTERN
NameChars ==
    {"a", "b", "c", "d", "e", "f", "g", "h", "i", "j", "k", "l", "m",
     "n", "o", "p", "q", "r", "s", "t", "u", "v", "w", "x", "y", "z",
     "A", "B", "C", "D", "E", "F", "G", "H", "I", "J", "K", "L", "M",
     "N", "O", "P", "Q", "R", "S", "T", "U", "V", "W", "X", "Y", "Z",
     "0", "1", "2", "3", "4", "5", "6", "7", "8", "9", "_"}

\* the length of the longest run of [a-zA-Z0-9_] of s that starts at i
RECURSIVE NameLen(_, _)
NameLen(s, i) ==
    IF i > Len(s) THEN 0
    ELSE IF SubSeq(s, i, i) \in NameChars THEN 1 + NameLen(s, i + 1)
    ELSE 0

\* VAR_PATTERN, "(\$\{[a-zA-Z0-9_]+\})", matched at position i of s: the
\* position of the closing brace, or 0 when there is no match at i
MatchEnd(s, i) ==
    IF i + 1 > Len(s) THEN 0
    ELSE IF SubSeq(s, i, i + 1) /= "${" THEN 0
    ELSE LET n == NameLen(s, i + 2)
         IN  IF n = 0 THEN 0
             ELSE IF i + 2 + n > Len(s) THEN 0
             ELSE IF SubSeq(s, i + 2 + n, i + 2 + n) = "}" THEN i + 2 + n
             ELSE 0

\* the match arms of the closure of remap_vars, "_" excluded
var_table(ver) ==
    ("${auth_access_token}" :> "${user.token}")
        @@ ("${auth_player_name}" :> "${user.name}")
        @@ ("${version_name}" :> "${instance.minecraft_version}")
        @@ ("${game_directory}" :> "${instance.game_dir}")
        @@ ("${assets_root}" :> "${instance.assets_dir}")
        @@ ("${assets_index_name}" :> "${instance.assets_index_name}")
        @@ ("${auth_uuid}" :> "${user.uuid}")
        @@ ("${clientid}" :> "")
        @@ ("${auth_xuid}" :> "")
        @@ ("${auth_session}" :> "${user.token}")
        @@ ("${user_type}" :> "${user.type}")
        @@ ("${version_type}" :> ver.type)
        @@ ("${resolution_width}" :> "${window.width}")
        @@ ("${resolution_height}" :> "${window.height}")
        @@ ("${user_properties}" :> "{}")
        @@ ("${game_assets}" :> "${instance.virtual_assets_dir}")
        @@ ("${quickPlaySingleplayer}" :> "${launch.world}")
        @@ ("${quickPlayMultiplayer}" :> "${launch.server}")

\* replace_all with a "_" arm that returns the token as it is
RECURSIVE replace_all_passing_unknown(_, _, _, _)
replace_all_passing_unknown(s, i, out, ver) ==
    IF i > Len(s) THEN [out |-> out, panicked |-> FALSE]
    ELSE IF MatchEnd(s, i) = 0
    THEN replace_all_passing_unknown(s, i + 1, out \o SubSeq(s, i, i), ver)
    ELSE IF SubSeq(s, i, MatchEnd(s, i)) \notin DOMAIN var_table(ver)
    THEN replace_all_passing_unknown(s, MatchEnd(s, i) + 1,
                                     out \o SubSeq(s, i, MatchEnd(s, i)), ver)
    ELSE replace_all_passing_unknown(
             s, MatchEnd(s, i) + 1,
             out \o var_table(ver)[SubSeq(s, i, MatchEnd(s, i))], ver)

\* Regex::replace_all from position i on, out being the text built so far:
\* the text left of a match is kept, the match is replaced by its arm, and
\* the "_" arm panics
RECURSIVE replace_all(_, _, _, _)
replace_all(s, i, out, ver) ==
    IF i > Len(s) THEN [out |-> out, panicked |-> FALSE]
    ELSE IF MatchEnd(s, i) = 0
    THEN replace_all(s, i + 1, out \o SubSeq(s, i, i), ver)
    ELSE IF SubSeq(s, i, MatchEnd(s, i)) \notin DOMAIN var_table(ver)
    THEN [out |-> "", panicked |-> TRUE]
    ELSE replace_all(s, MatchEnd(s, i) + 1,
                     out \o var_table(ver)[SubSeq(s, i, MatchEnd(s, i))], ver)

\* remap_vars(s, version): the rewritten argument, or the panic
\* "{s} not supported"
remap_vars(s, ver) == replace_all(s, 1, "", ver)

\* str::split(' '): the pieces between the delimiters, empty ones included
RECURSIVE split(_, _)
split(s, d) ==
    IF Find(s, d) = 0 THEN <<s>>
    ELSE <<SubSeq(s, 1, Find(s, d) - 1)>>
            \o split(SubSeq(s, Find(s, d) + Len(d), Len(s)), d)

\* MojangConditionalValue::Always and ::Conditional
MojangAlways(argument) == [kind |-> "Always", argument |-> argument]
MojangConditional(rules, value) ==
    [kind |-> "Conditional", rules |-> rules, value |-> value]

MojangVersionArguments(game) == [game |-> game]

\* MinecraftArgument::Always and ::Conditional
Always(value) == [kind |-> "Always", value |-> value]
Conditional(value, feature) ==
    [kind |-> "Conditional", value |-> value, feature |-> feature]

\* the outcomes of the features block of one conditional argument: the
\* feature found, `continue`, or a failed ensure!
Gated(feature, traits) ==
    [status |-> "ok", error |-> None, feature |-> feature, traits |-> traits]
Skipped(traits) ==
    [status |-> "skip", error |-> None, feature |-> None, traits |-> traits]
Failed(message) ==
    [status |-> "err", error |-> Some(message), feature |-> None, traits |-> {}]
Panicked(message) ==
    [status |-> "panic", error |-> Some(message), feature |-> None, traits |-> {}]

\* `if let Some(is_quick_play_realms) = features.is_quick_play_realms`
feat_realms(features, feature, traits) ==
    IF IsNone(features.is_quick_play_realms) THEN Gated(feature, traits)
    ELSE IF Unwrap(features.is_quick_play_realms) /\ IsNone(feature)
    THEN Skipped(traits)
    ELSE Failed("Condition failed: is_quick_play_realms && feature.is_none()")

\* `if let Some(is_quick_play_multiplayer) = features.is_quick_play_multiplayer`
feat_multiplayer(features, feature, traits) ==
    IF IsNone(features.is_quick_play_multiplayer)
    THEN feat_realms(features, feature, traits)
    ELSE IF Unwrap(features.is_quick_play_multiplayer) /\ IsNone(feature)
    THEN feat_realms(features, Some("QuickPlayServer"),
                     traits \cup {"SupportsQuickPlayServer"})
    ELSE Failed("Condition failed: is_quick_play_multiplayer && feature.is_none()")

\* the is_quick_play_singleplayer block with the feature and the trait of the
\* is_quick_play_multiplayer block
feat_singleplayer_as_server(features, feature, traits) ==
    IF IsNone(features.is_quick_play_singleplayer)
    THEN feat_multiplayer(features, feature, traits)
    ELSE IF Unwrap(features.is_quick_play_singleplayer) /\ IsNone(feature)
    THEN feat_multiplayer(features, Some("QuickPlayServer"),
                          traits \cup {"SupportsQuickPlayServer"})
    ELSE Failed("Condition failed: is_quick_play_singleplayer && feature.is_none()")

\* `if let Some(is_quick_play_singleplayer) = features.is_quick_play_singleplayer`
feat_singleplayer(features, feature, traits) ==
    IF IsNone(features.is_quick_play_singleplayer)
    THEN feat_multiplayer(features, feature, traits)
    ELSE IF Unwrap(features.is_quick_play_singleplayer) /\ IsNone(feature)
    THEN feat_multiplayer(features, Some("QuickPlayWorld"),
                          traits \cup {"SupportsQuickPlayWorld"})
    ELSE Failed("Condition failed: is_quick_play_singleplayer && feature.is_none()")

\* `if let Some(has_quick_plays_support) = features.has_quick_plays_support`
feat_quick_plays(features, feature, traits) ==
    IF IsNone(features.has_quick_plays_support)
    THEN feat_singleplayer(features, feature, traits)
    ELSE IF Unwrap(features.has_quick_plays_support) /\ IsNone(feature)
    THEN Skipped(traits)
    ELSE Failed("Condition failed: has_quick_plays_support && feature.is_none()")

\* `if let Some(has_custom_resolution) = features.has_custom_resolution`
feat_resolution(features, feature, traits) ==
    IF IsNone(features.has_custom_resolution)
    THEN feat_quick_plays(features, feature, traits)
    ELSE IF Unwrap(features.has_custom_resolution) /\ IsNone(feature)
    THEN feat_quick_plays(features, Some("CustomResolution"),
                          traits \cup {"SupportsCustomResolution"})
    ELSE Failed("Condition failed: has_custom_resolution && feature.is_none()")

\* `if let Some(is_demo_user) = features.is_demo_user`
feat_demo(features, traits) ==
    IF IsNone(features.is_demo_user) THEN feat_resolution(features, None, traits)
    ELSE IF Unwrap(features.is_demo_user)
    THEN feat_resolution(features, Some("Demo"), traits)
    ELSE Failed("Condition failed: is_demo_user")

\* `let feature = feature.unwrap();`
unwrap_feature(found) ==
    IF found.status = "ok" /\ IsNone(found.feature)
    THEN Panicked("called Option::unwrap() on a None value")
    ELSE found

\* the three ensure! on the rules of a conditional argument without the one
\* on rules[0].os
conditional_feature_any_os(rules, traits) ==
    IF Len(rules) /= 1 THEN Failed("Condition failed: rules.len() == 1")
    ELSE IF rules[1].action /= "Allow"
    THEN Failed("Condition failed: rules[0].action == RuleAction::Allow")
    ELSE IF IsNone(rules[1].features) THEN Failed("Argument rules empty")
    ELSE unwrap_feature(feat_demo(Unwrap(rules[1].features), traits))

\* the head of the MojangConditionalValue::Conditional arm: the three ensure!
\* on the rules, the features block, the unwrap of the feature
conditional_feature(rules, traits) ==
    IF Len(rules) /= 1 THEN Failed("Condition failed: rules.len() == 1")
    ELSE IF rules[1].action /= "Allow"
    THEN Failed("Condition failed: rules[0].action == RuleAction::Allow")
    ELSE IF IsSome(rules[1].os)
    THEN Failed("Condition failed: rules[0].os.is_none()")
    ELSE IF IsNone(rules[1].features) THEN Failed("Argument rules empty")
    ELSE unwrap_feature(feat_demo(Unwrap(rules[1].features), traits))

\* the state of the argument loops: the arguments pushed and the traits
\* inserted so far, or the error or panic that ended process_version
Pushed(arguments, traits) ==
    [status |-> "ok", error |-> None, arguments |-> arguments, traits |-> traits]
Ended(status, message) ==
    [status |-> status, error |-> message, arguments |-> <<>>, traits |-> {}]

\* `for argument in value { arguments.push(Conditional { .. }) }`
RECURSIVE push_values(_, _, _, _, _, _)
push_values(value, j, feature, arguments, traits, ver) ==
    IF j > Len(value) THEN Pushed(arguments, traits)
    ELSE IF remap_vars(value[j], ver).panicked
    THEN Ended("panic", Some(value[j] \o " not supported"))
    ELSE push_values(value, j + 1, feature,
                     Append(arguments,
                            Conditional(remap_vars(value[j], ver).out, feature)),
                     traits, ver)

\* `for argument in &version_arguments.game`, from argument i on
RECURSIVE game_arguments(_, _, _, _, _)
\* the MojangConditionalValue::Conditional arm for argument i, found being
\* the outcome of its head
conditional_argument(game, i, found, arguments, ver) ==
    IF found.status = "skip"
    THEN game_arguments(game, i + 1, arguments, found.traits, ver)
    ELSE IF found.status /= "ok" THEN Ended(found.status, found.error)
    ELSE IF push_values(game[i].value, 1, Unwrap(found.feature), arguments,
                        found.traits, ver).status /= "ok"
    THEN push_values(game[i].value, 1, Unwrap(found.feature), arguments,
                     found.traits, ver)
    ELSE game_arguments(game, i + 1,
                        push_values(game[i].value, 1, Unwrap(found.feature),
                                    arguments, found.traits, ver).arguments,
                        found.traits, ver)

game_arguments(game, i, arguments, traits, ver) ==
    IF i > Len(game) THEN Pushed(arguments, traits)
    ELSE IF game[i].kind = "Always"
    THEN IF remap_vars(game[i].argument, ver).panicked
         THEN Ended("panic", Some(game[i].argument \o " not supported"))
         ELSE game_arguments(game, i + 1,
                             Append(arguments,
                                    Always(remap_vars(game[i].argument, ver).out)),
                             traits, ver)
    ELSE conditional_argument(game, i, conditional_feature(game[i].rules, traits),
                              arguments, ver)

\* the loop over the pieces of minecraft_arguments without the --demo
\* argument pushed after it
RECURSIVE legacy_arguments_without_demo(_, _, _, _, _)
legacy_arguments_without_demo(pieces, j, arguments, traits, ver) ==
    IF j > Len(pieces) THEN Pushed(arguments, traits)
    ELSE IF remap_vars(pieces[j], ver).panicked
    THEN Ended("panic", Some(pieces[j] \o " not supported"))
    ELSE legacy_arguments_without_demo(
             pieces, j + 1,
             Append(arguments, Always(remap_vars(pieces[j], ver).out)),
             traits, ver)

\* `for argument in minecraft_arguments.split(' ')`, from piece j on, and the
\* --demo argument pushed after the loop
RECURSIVE legacy_arguments(_, _, _, _, _)
legacy_arguments(pieces, j, arguments, traits, ver) ==
    IF j > Len(pieces)
    THEN Pushed(Append(arguments, Conditional("--demo", "Demo")), traits)
    ELSE IF remap_vars(pieces[j], ver).panicked
    THEN Ended("panic", Some(pieces[j] \o " not supported"))
    ELSE legacy_arguments(pieces, j + 1,
                          Append(arguments, Always(remap_vars(pieces[j], ver).out)),
                          traits, ver)

\* `if let Some(minecraft_arguments) = &version.minecraft_arguments { .. }`
after_game_arguments(pushed, ver) ==
    IF pushed.status /= "ok" THEN pushed
    ELSE IF IsNone(ver.minecraft_arguments) THEN pushed
    ELSE legacy_arguments(split(Unwrap(ver.minecraft_arguments), " "), 1,
                          pushed.arguments, pushed.traits, ver)

\* process_version from `let mut arguments = Vec::new();` to the component:
\* the arguments and the traits, or the error or panic
process_arguments(ver, traits) ==
    after_game_arguments(
        IF IsNone(ver.arguments) THEN Pushed(<<>>, traits)
        ELSE game_arguments(Unwrap(ver.arguments).game, 1, <<>>, traits, ver),
        ver)

---------------------------------------------------------------------------
\* process_version: the actions

MaxLibs == 2

\* from the deserialized version to the loop: the ensure! on inherits_from,
\* the client download and its entry in the ledger
Begin ==
    /\ pc = "start"
    /\ IF IsSome(version.inherits_from)
       THEN /\ pc' = "failed"
            /\ error' = Some("Condition failed: version.inherits_from.is_none()")
            /\ UNCHANGED downloads
       ELSE IF IsNone(version.downloads)
       THEN /\ pc' = "failed"
            /\ error' = Some("Download missing")
            /\ UNCHANGED downloads
       ELSE LET game_download == Unwrap(version.downloads).client
                name == game_artifact_name(version)
            IN  /\ pc' = "library"
                /\ downloads' = insert(downloads, name,
                                       Download(name, game_download.url,
                                                game_download.size,
                                                SHA1(game_download.sha1)))
                /\ UNCHANGED error
    /\ UNCHANGED <<version, classpath, natives, is_lwjgl3, lib_in, library,
                   ignore_rules, platform, nat_i, nat_k, n_libs, last_add,
                   component, seen>>
    /\ UNCHANGED <<gradle_vars, rules_vars, batch_vars>>

\* the iteration from the LWJGL block on: lib is the library as patched,
\* lwjgl the outcome of the LWJGL block, evaluated the platform or the error
BeginRuled(lib, lwjgl, evaluated) ==
    /\ library' = Some(lib)
    /\ is_lwjgl3' = (is_lwjgl3 \/ lwjgl.is_lwjgl3)
    /\ ignore_rules' = lwjgl.ignore_rules
    /\ IF lwjgl.skip
       THEN /\ pc' = "library"                  \* continue
            /\ platform' = None
            /\ UNCHANGED error
       ELSE IF IsErr(evaluated)
       THEN /\ pc' = "failed"
            /\ error' = Some("Unsupported feature: " \o evaluated[2])
            /\ platform' = None
       ELSE /\ pc' = "artifact"
            /\ platform' = evaluated[2]
            /\ UNCHANGED error

\* the iteration from the log4j block on: patched is its outcome
BeginPatched(patched, lwjgl) ==
    IF patched.panicked
    THEN /\ pc' = "panicked"
         /\ error' = Some("not yet implemented: " \o fmt(patched.library.name))
         /\ library' = Some(patched.library)
         /\ ignore_rules' = FALSE
         /\ platform' = None
         /\ UNCHANGED is_lwjgl3
    ELSE BeginRuled(patched.library, lwjgl,
                    compute_platform(patched.library, lwjgl.ignore_rules))

\* the head of one iteration of `for library in &mut version.libraries`: the
\* ensure! on the rules, the log4j patch, the LWJGL carve-outs, the platform
BeginLibrary(lib) ==
    /\ pc = "library"
    /\ n_libs < MaxLibs
    /\ n_libs' = n_libs + 1
    /\ lib_in' = Some(lib)
    /\ seen' = Append(seen, lib)
    /\ nat_i' = 0
    /\ nat_k' = 0
    /\ last_add' = "none"
    /\ IF ~rules_shape_ok(lib.rules)
       THEN /\ pc' = "failed"
            /\ error' = Some("Multiple rules not handled currently")
            /\ library' = Some(lib)
            /\ ignore_rules' = FALSE
            /\ platform' = None
            /\ UNCHANGED is_lwjgl3
       ELSE BeginPatched(patch_log4j(lib), lwjgl_rules(patch_log4j(lib).library))
    /\ UNCHANGED <<version, downloads, classpath, natives, component>>
    /\ UNCHANGED <<gradle_vars, rules_vars, batch_vars>>

\* `if let Some(artifact) = &library.downloads.artifact { ... }`
AddArtifact ==
    /\ pc = "artifact"
    /\ LET lib == Unwrap(library)
           added == add_download(downloads, lib.name,
                                 Unwrap(lib.downloads.artifact))
           after == IF lib.natives = <<>> THEN "library" ELSE "native"
       IN  IF IsNone(lib.downloads.artifact)
           THEN /\ pc' = after
                /\ last_add' = "none"
                /\ UNCHANGED <<error, downloads, classpath>>
           ELSE /\ last_add' = added.branch
                /\ IF IsErr(added.result)
                   THEN /\ pc' = "failed"
                        /\ error' = Some(added.result[2])
                        /\ UNCHANGED <<downloads, classpath>>
                   ELSE /\ pc' = after
                        /\ downloads' = added.result[2]
                        /\ classpath' =
                              set_insert(classpath,
                                         IF IsNone(platform) THEN All(lib.name)
                                         ELSE PlatformSpecific(lib.name,
                                                               Unwrap(platform)))
                        /\ UNCHANGED error
    /\ UNCHANGED <<version, natives, is_lwjgl3, lib_in, library, ignore_rules,
                   platform, nat_i, nat_k, n_libs, component, seen>>
    /\ UNCHANGED <<gradle_vars, rules_vars, batch_vars>>

\* one step of `for (os, classifier) in &library.natives`: an entry the
\* platform does not admit is passed over, otherwise the next process_native
\* call of the entry is made
ProcessNative ==
    /\ pc = "native"
    /\ LET lib == Unwrap(library)
           os == lib.natives[nat_i + 1][1]
           classifier == lib.natives[nat_i + 1][2]
           calls == native_calls(classifier)
           call == calls[nat_k + 1]
           made == process_native(downloads, natives, lib, os, call[1], call[2])
           entry_done == ~platform_admits(platform, os) \/ nat_k + 1 = Len(calls)
           advance ==
                /\ nat_i' = IF entry_done THEN nat_i + 1 ELSE nat_i
                /\ nat_k' = IF entry_done THEN 0 ELSE nat_k + 1
                /\ pc' = IF entry_done /\ nat_i + 1 = Len(lib.natives)
                         THEN "library" ELSE "native"
       IN  IF ~platform_admits(platform, os)
           THEN /\ advance
                /\ last_add' = "none"
                /\ UNCHANGED <<error, downloads, natives>>
           ELSE /\ last_add' = made.branch
                /\ IF IsErr(made.result)
                   THEN /\ pc' = "failed"
                        /\ error' = Some(made.result[2])
                        /\ UNCHANGED <<downloads, natives, nat_i, nat_k>>
                   ELSE /\ advance
                        /\ downloads' = made.result[2][1]
                        /\ natives' = made.result[2][2]
                        /\ UNCHANGED error
    /\ UNCHANGED <<version, classpath, is_lwjgl3, lib_in, library, ignore_rules,
                   platform, n_libs, component, seen>>
    /\ UNCHANGED <<gradle_vars, rules_vars, batch_vars>>

Component(id, ver, downloads_, classpath_, natives_, game_jar) ==
    [format_version |-> 1, id |-> id, version |-> ver.id, downloads |-> downloads_,
     classpath |-> classpath_, natives |-> natives_, game_jar |-> game_jar,
     release_time |-> ver.release_time, requires |-> <<>>, conflicts |-> <<>>]

\* `if is_lwjgl3 { traits.insert(Trait::MacStartOnFirstThread); }`
lwjgl_traits(lwjgl3) == IF lwjgl3 THEN {"MacStartOnFirstThread"} ELSE {}

\* after the last library: the traits, the game arguments, and
\* `let component = helix::component::Component { .. }`
Assemble ==
    /\ pc = "library"
    /\ IF process_arguments(version, lwjgl_traits(is_lwjgl3)).status = "ok"
       THEN /\ pc' = "done"
            /\ component' =
                  Some(Component("net.minecraft", version, into_values(downloads),
                                 classpath, natives,
                                 Some(game_artifact_name(version)))
                       @@ [traits |->
                             process_arguments(version,
                                               lwjgl_traits(is_lwjgl3)).traits,
                           game_arguments |->
                             process_arguments(version,
                                               lwjgl_traits(is_lwjgl3)).arguments])
            /\ UNCHANGED error
       ELSE /\ pc' = IF process_arguments(version,
                                          lwjgl_traits(is_lwjgl3)).status = "panic"
                     THEN "panicked" ELSE "failed"
            /\ error' = process_arguments(version, lwjgl_traits(is_lwjgl3)).error
            /\ UNCHANGED component
    /\ UNCHANGED <<version, downloads, classpath, natives, is_lwjgl3,
                   lib_in, library, ignore_rules, platform, nat_i, nat_k,
                   n_libs, last_add, seen>>
    /\ UNCHANGED <<gradle_vars, rules_vars, batch_vars>>

---------------------------------------------------------------------------
\* Inputs of process_version

ClientDownload == MojangDownload("c1", 100, "https://piston-data.mojang.com/client.jar")

Versions ==
    {MojangVersion("1.19", inherits, client) :
        inherits \in {None, Some("1.18")},
        client \in {None, Some([client |-> ClientDownload])}}

Artifact(sha1, url) == MojangLibraryArtifact("path", sha1, 10, url)

NoClassifiers == <<>>

NativeClassifiers ==
    ("natives-linux" :> Artifact("n1", "u-linux"))
        @@ ("natives-windows-32" :> Artifact("n2", "u-win32"))
        @@ ("natives-windows-64" :> Artifact("n3", "u-win64"))

\* the same map without the 64-bit Windows artifact
NativeClassifiersNo64 ==
    ("natives-linux" :> Artifact("n1", "u-linux"))
        @@ ("natives-windows-32" :> Artifact("n2", "u-win32"))

AllowAll == Rule(None, None, "Allow")
DisallowAll == Rule(None, None, "Disallow")
AllowOs(o) == Rule(None, Some(OsRule(Some(o), None, None)), "Allow")
DisallowOs(o) == Rule(None, Some(OsRule(Some(o), None, None)), "Disallow")
AllowArch == Rule(None, Some(OsRule(None, None, Some("x86"))), "Allow")
AllowDemo == Rule(Some(DemoFeatures), None, "Allow")

RuleLists ==
    {<<>>, <<AllowAll>>, <<AllowOs("Osx")>>, <<DisallowAll>>, <<AllowArch>>,
     <<AllowAll, DisallowOs("Osx")>>, <<DisallowOs("Osx"), AllowAll>>,
     <<AllowOs("Linux"), AllowOs("Windows")>>, <<AllowDemo, DisallowOs("Osx")>>,
     <<AllowAll, AllowAll, AllowAll>>}

Alpha == GradleSpecifier("com.example", "alpha", "1.0", None, "jar")
AlphaNativesLinux ==
    GradleSpecifier("com.example", "alpha", "1.0", Some("natives-linux"), "jar")
Lwjgl == GradleSpecifier("org.lwjgl", "lwjgl", "3.2.1", None, "jar")
LwjglNativesMacos ==
    GradleSpecifier("org.lwjgl", "lwjgl", "3.2.1", Some("natives-macos"), "jar")
LwjglPlatform ==
    GradleSpecifier("org.lwjgl.lwjgl", "lwjgl-platform", "2.9.4", None, "jar")

NativesLinux == << <<"Linux", "natives-linux">> >>
NativesWindows == << <<"Windows", "natives-windows-${arch}">> >>
NativesBoth ==
    << <<"Linux", "natives-linux">>, <<"Windows", "natives-windows-${arch}">> >>

\* the same coordinate with the same or another hash, and another URL
RepeatedLibraries ==
    {MojangLibrary(Alpha, MojangLibraryDownloads(Some(a), NoClassifiers),
                   <<>>, <<>>, <<>>) :
        a \in {Artifact("s1", "u1"), Artifact("s1", "u2"), Artifact("s2", "u1")}}

RuledLibraries ==
    {MojangLibrary(Alpha,
                   MojangLibraryDownloads(Some(Artifact("s1", "u1")), NoClassifiers),
                   rules, <<>>, <<>>) :
        rules \in RuleLists}

NativeLibraries ==
    {MojangLibrary(Alpha, MojangLibraryDownloads(None, NativeClassifiers),
                   rules, <<>>, nat) :
        rules \in {<<>>, <<AllowOs("Linux")>>, <<AllowAll, DisallowOs("Windows")>>},
        nat \in {NativesLinux, NativesWindows, NativesBoth}}
    \cup
    {MojangLibrary(Alpha, MojangLibraryDownloads(None, NativeClassifiers),
                   <<>>, <<>>, << <<"Osx", "natives-osx-${os}">> >>),
     MojangLibrary(Alpha, MojangLibraryDownloads(None, NativeClassifiers),
                   <<>>, <<>>, << <<"Osx", "natives-osx">> >>),
     MojangLibrary(Alpha, MojangLibraryDownloads(None, NativeClassifiersNo64),
                   <<>>, <<>>, NativesWindows),
     MojangLibrary(Alpha, MojangLibraryDownloads(None, NativeClassifiers),
                   <<>>, <<"META-INF/">>, NativesLinux),
     MojangLibrary(Alpha,
                   MojangLibraryDownloads(Some(Artifact("s1", "u1")),
                                          NativeClassifiers),
                   <<>>, <<>>, NativesLinux)}

\* a library named with the classifier a native of Alpha also takes
ClassifiedLibraries ==
    {MojangLibrary(AlphaNativesLinux,
                   MojangLibraryDownloads(Some(a), NoClassifiers),
                   <<>>, <<>>, <<>>) :
        a \in {Artifact("n1", "u-other"), Artifact("n9", "u-linux")}}

LwjglLibraries ==
    {MojangLibrary(LwjglPlatform, MojangLibraryDownloads(None, NativeClassifiers),
                   rules, <<>>, NativesBoth) :
        rules \in {<<>>, <<AllowOs("Linux")>>, <<AllowAll, DisallowOs("Windows")>>}}
    \cup
    {MojangLibrary(Lwjgl,
                   MojangLibraryDownloads(Some(Artifact("l1", "u-lwjgl")),
                                          NoClassifiers),
                   <<AllowAll, DisallowOs("Osx")>>, <<>>, <<>>),
     MojangLibrary(Lwjgl,
                   MojangLibraryDownloads(Some(Artifact("l1", "u-lwjgl")),
                                          NoClassifiers),
                   <<AllowOs("Osx")>>, <<>>, <<>>),
     MojangLibrary(LwjglNativesMacos,
                   MojangLibraryDownloads(Some(Artifact("l2", "u-lwjgl-macos")),
                                          NoClassifiers),
                   <<AllowOs("Osx")>>, <<>>, <<>>)}

Beta == GradleSpecifier("com.example", "beta", "1.0", None, "jar")

\* a library that carries nothing but one Windows native classifier
WindowsOnlyLibraries ==
    {MojangLibrary(Beta,
                   MojangLibraryDownloads(
                       None, "natives-windows" :> Artifact("n4", "u-win")),
                   <<>>, <<>>, << <<"Windows", "natives-windows">> >>)}

\* the allow-then-disallow pair with a predicate the evaluator refuses, on a
\* library of the LWJGL family and on another one
CarveOutLibraries ==
    {MojangLibrary(name,
                   MojangLibraryDownloads(Some(Artifact("l3", "u-pair")),
                                          NoClassifiers),
                   <<AllowAll,
                     Rule(None, Some(OsRule(Some("Osx"), None, Some("x86"))),
                          "Disallow")>>,
                   <<>>, <<>>) :
        name \in {Lwjgl, Beta}}

\* a templated classifier with a second placeholder, on an OS the rules
\* admit, and an unresolved classifier on an OS the rules do not admit
UnresolvedLibraries ==
    {MojangLibrary(Beta, MojangLibraryDownloads(None, NativeClassifiers),
                   <<>>, <<>>, << <<"Osx", "natives-${os}-${arch}">> >>),
     MojangLibrary(Beta, MojangLibraryDownloads(None, NativeClassifiers),
                   <<AllowOs("Linux")>>, <<>>,
                   << <<"Osx", "natives-osx-${os}">>,
                      <<"Linux", "natives-linux">> >>)}

Libraries ==
    RepeatedLibraries \cup RuledLibraries \cup NativeLibraries
        \cup ClassifiedLibraries \cup LwjglLibraries
        \cup WindowsOnlyLibraries \cup CarveOutLibraries
        \cup UnresolvedLibraries

IdleProcess ==
    /\ pc = "idle"
    /\ error = None
    /\ version = MojangVersion("", None, None)
    /\ downloads = <<>>
    /\ classpath = <<>>
    /\ natives = <<>>
    /\ is_lwjgl3 = FALSE
    /\ lib_in = None
    /\ library = None
    /\ ignore_rules = FALSE
    /\ platform = None
    /\ nat_i = 0
    /\ nat_k = 0
    /\ n_libs = 0
    /\ last_add = "none"
    /\ component = None
    /\ seen = <<>>

InitProcess ==
    /\ pc = "start"
    /\ error = None
    /\ version \in Versions
    /\ downloads = <<>>
    /\ classpath = <<>>
    /\ natives = <<>>
    /\ is_lwjgl3 = FALSE
    /\ lib_in = None
    /\ library = None
    /\ ignore_rules = FALSE
    /\ platform = None
    /\ nat_i = 0
    /\ nat_k = 0
    /\ n_libs = 0
    /\ last_add = "none"
    /\ component = None
    /\ seen = <<>>

\* process is not running
IdleBatch ==
    /\ dir = <<>>
    /\ file_i = 0
    /\ index = <<>>
    /\ batch_pc = "idle"
    /\ batch_error = None
    /\ index_json = None

---------------------------------------------------------------------------
\* The specifications

Init == IdleGradle /\ IdleRules /\ InitProcess /\ IdleBatch

Next ==
    \/ Begin
    \/ \E lib \in Libraries : BeginLibrary(lib)
    \/ AddArtifact
    \/ ProcessNative
    \/ Assemble

\* process_version over the libraries of Libraries
Spec == Init /\ [][Next]_vars

InitGradle_ == InitGradle /\ IdleRules /\ IdleProcess /\ IdleBatch

NextGradle == Format \/ Parse

\* format, then parse, of one GradleSpecifier
SpecGradle == InitGradle_ /\ [][NextGradle]_vars

InitRules_ == IdleGradle /\ InitRules /\ IdleProcess /\ IdleBatch

NextRules == Evaluate

\* evaluate_rules_os_name on one rule list
SpecRules == InitRules_ /\ [][NextRules]_vars

---------------------------------------------------------------------------
\* process_version over versions with game arguments

MaxArgs == 2

\* the tokens of the substitution table, one the table does not have, and
\* texts VAR_PATTERN does not match
TableTokens == DOMAIN var_table(MojangVersion("", None, None))
UnknownTokens == {"${totally_unknown}"}
UnmatchedTexts == {"${user.name}", "${}", "${auth_uuid", "--demo"}

ArgumentTexts ==
    {before \o token \o after :
        before \in {"", "--opt="},
        token \in TableTokens \cup UnknownTokens \cup UnmatchedTexts,
        after \in {"", "/x"}}
    \cup {"${auth_uuid}${auth_player_name}", "${auth_uuid}${totally_unknown}", ""}

Flags == {None, Some(TRUE)}

\* every choice of the feature predicates set to true, and each one set to
\* false alone
FeatureBlocks ==
    {FeaturesRule(d, r, q, s, m, x) :
        d \in Flags, r \in Flags, q \in Flags, s \in Flags, m \in Flags, x \in Flags}
    \cup
    {[NoFeatures EXCEPT ![k] = Some(FALSE)] : k \in DOMAIN NoFeatures}

ArgumentRuleLists ==
    {<<Rule(Some(f), None, "Allow")>> : f \in FeatureBlocks}
    \cup
    {<<>>, <<AllowAll>>, <<AllowDemo, AllowDemo>>,
     <<Rule(Some(DemoFeatures), None, "Disallow")>>,
     <<Rule(Some(DemoFeatures), Some(OsRule(Some("Osx"), None, None)), "Allow")>>,
     <<Rule(Some(DemoFeatures), Some(OsRule(None, None, None)), "Allow")>>}

GameArguments ==
    {MojangAlways(t) : t \in ArgumentTexts}
    \cup {MojangConditional(rules, <<"--flag">>) : rules \in ArgumentRuleLists}
    \cup {MojangConditional(<<AllowDemo>>, v) :
            v \in {<<>>, <<"--width", "${resolution_width}">>,
                   <<"--width", "${totally_unknown}">>}}

\* arguments that pass: a plain one, a gated one, a skipped one
CommonArguments ==
    {MojangAlways("--username"),
     MojangConditional(<<AllowDemo>>, <<"--demo">>),
     MojangConditional(
         <<Rule(Some(FeaturesRule(None, None, None, None, None, Some(TRUE))),
                None, "Allow")>>, <<"--realms">>)}

GameArgumentLists ==
    {<<>>} \cup
    {Append(l, a) : l \in ListsUpTo(CommonArguments, MaxArgs - 1),
                    a \in GameArguments}

LegacyArguments ==
    {None, Some("--username ${auth_player_name}  --session ${auth_session}"),
     Some("--uuid ${totally_unknown}"), Some("")}

ArgumentVersions ==
    {[MojangVersion("1.19", None, Some([client |-> ClientDownload]))
        EXCEPT !.arguments = a, !.minecraft_arguments = m] :
        a \in {None} \cup {Some(MojangVersionArguments(g)) : g \in GameArgumentLists},
        m \in LegacyArguments}

ArgumentLibraries ==
    {MojangLibrary(Lwjgl,
                   MojangLibraryDownloads(Some(Artifact("l1", "u-lwjgl")),
                                          NoClassifiers),
                   <<>>, <<>>, <<>>)}

InitArguments ==
    /\ IdleGradle
    /\ IdleRules
    /\ IdleBatch
    /\ pc = "start"
    /\ error = None
    /\ version \in ArgumentVersions
    /\ downloads = <<>>
    /\ classpath = <<>>
    /\ natives = <<>>
    /\ is_lwjgl3 = FALSE
    /\ lib_in = None
    /\ library = None
    /\ ignore_rules = FALSE
    /\ platform = None
    /\ nat_i = 0
    /\ nat_k = 0
    /\ n_libs = 0
    /\ last_add = "none"
    /\ component = None
    /\ seen = <<>>

NextArguments ==
    \/ Begin
    \/ \E lib \in ArgumentLibraries : BeginLibrary(lib)
    \/ AddArtifact
    \/ Assemble

\* process_version over the versions of ArgumentVersions
SpecArguments == InitArguments /\ [][NextArguments]_vars

---------------------------------------------------------------------------
\* remap_vars over texts in which a token of the table stands inside other
\* placeholder text

RewriteTexts ==
    {before \o token \o after :
        before \in {"", "$", "${", "${auth_"},
        token \in {"${clientid}", "${auth_xuid}", "${auth_uuid}",
                   "${user_properties}", "x"},
        after \in {"", "}", "uuid}", "{user_type}"}}

RewriteVersions ==
    {[MojangVersion("1.19", None, Some([client |-> ClientDownload]))
        EXCEPT !.arguments = Some(MojangVersionArguments(<<MojangAlways(t)>>))] :
        t \in RewriteTexts}

InitRewrite ==
    /\ IdleGradle
    /\ IdleRules
    /\ IdleBatch
    /\ pc = "start"
    /\ error = None
    /\ version \in RewriteVersions
    /\ downloads = <<>>
    /\ classpath = <<>>
    /\ natives = <<>>
    /\ is_lwjgl3 = FALSE
    /\ lib_in = None
    /\ library = None
    /\ ignore_rules = FALSE
    /\ platform = None
    /\ nat_i = 0
    /\ nat_k = 0
    /\ n_libs = 0
    /\ last_add = "none"
    /\ component = None
    /\ seen = <<>>

NextRewrite ==
    \/ Begin
    \/ Assemble

\* process_version over the versions of RewriteVersions, which have no
\* libraries
SpecRewrite == InitRewrite /\ [][NextRewrite]_vars

---------------------------------------------------------------------------
\* process: the batch over the files of upstream/mojang/versions

MaxFiles == 3

\* IndexEntry::from(component)
IndexEntry(c) ==
    [version |-> c.version, release_time |-> c.release_time,
     conflicts |-> c.conflicts, requires |-> c.requires]

\* place with the operands of the comparison exchanged
RECURSIVE place_ascending(_, _)
place_ascending(sorted, x) ==
    IF sorted = <<>> THEN <<x>>
    ELSE IF Head(sorted).release_time <= x.release_time
    THEN <<Head(sorted)>> \o place_ascending(Tail(sorted), x)
    ELSE <<x>> \o sorted

\* the place of entry x in a list sorted by `y.release_time.cmp(&x.release_time)`:
\* after every entry that does not compare greater, which keeps the sort stable
RECURSIVE place(_, _)
place(sorted, x) ==
    IF sorted = <<>> THEN <<x>>
    ELSE IF Head(sorted).release_time >= x.release_time
    THEN <<Head(sorted)>> \o place(Tail(sorted), x)
    ELSE <<x>> \o sorted

\* `index.sort_by(|x, y| y.release_time.cmp(&x.release_time))` on the entries
\* from n on, sorted holding the entries before n
RECURSIVE sort_from(_, _, _)
sort_from(entries, n, sorted) ==
    IF n > Len(entries) THEN sorted
    ELSE sort_from(entries, n + 1, place(sorted, entries[n]))

sort_by(entries) == sort_from(entries, 1, <<>>)

\* a DirEntry: the file name and the version the file deserializes to
DirEntry(ver) == [file_name |-> ver.id \o ".json", version |-> ver]

\* process_version is entered for the next file of the directory
NextFile ==
    /\ batch_pc = "loop"
    /\ pc = "idle"
    /\ file_i < Len(dir)
    /\ file_i' = file_i + 1
    /\ pc' = "start"
    /\ version' = dir[file_i + 1].version
    /\ UNCHANGED <<error, downloads, classpath, natives, is_lwjgl3, lib_in,
                   library, ignore_rules, platform, nat_i, nat_k, n_libs,
                   last_add, component, seen>>
    /\ UNCHANGED <<dir, index, batch_pc, batch_error, index_json>>
    /\ UNCHANGED <<gradle_vars, rules_vars>>

\* process_version has returned: `.with_context(..)?` and `index.push(..)`
EndFile ==
    /\ batch_pc = "loop"
    /\ pc \in {"done", "failed", "panicked"}
    /\ IF pc = "done"
       THEN /\ index' = Append(index, IndexEntry(Unwrap(component)))
            /\ UNCHANGED <<batch_pc, batch_error>>
       ELSE /\ batch_pc' = pc
            /\ batch_error' =
                  IF pc = "panicked" THEN error
                  ELSE Some("Failed to process " \o dir[file_i].file_name
                                \o ": " \o Unwrap(error))
            /\ UNCHANGED index
    /\ pc' = "idle"
    /\ error' = None
    /\ version' = MojangVersion("", None, None)
    /\ downloads' = <<>>
    /\ classpath' = <<>>
    /\ natives' = <<>>
    /\ is_lwjgl3' = FALSE
    /\ lib_in' = None
    /\ library' = None
    /\ ignore_rules' = FALSE
    /\ platform' = None
    /\ nat_i' = 0
    /\ nat_k' = 0
    /\ n_libs' = 0
    /\ last_add' = "none"
    /\ component' = None
    /\ seen' = <<>>
    /\ UNCHANGED <<dir, file_i, index_json>>
    /\ UNCHANGED <<gradle_vars, rules_vars>>

\* after the loop: the sort and the write of index.json
WriteIndex ==
    /\ batch_pc = "loop"
    /\ pc = "idle"
    /\ file_i = Len(dir)
    /\ index' = sort_by(index)
    /\ index_json' = Some(sort_by(index))
    /\ batch_pc' = "done"
    /\ UNCHANGED <<dir, file_i, batch_error>>
    /\ UNCHANGED <<gradle_vars, rules_vars, process_vars>>

VersionIds == {"a", "b", "c", "d"}
ReleaseTimes == {1, 2}

BatchVersions ==
    {[MojangVersion(id, inherits, Some([client |-> ClientDownload]))
        EXCEPT !.release_time = t] :
        id \in VersionIds, inherits \in {None, Some("1.18")}, t \in ReleaseTimes}

\* the directories of up to MaxFiles files, no two of the same name
Directories ==
    {d \in ListsUpTo({DirEntry(v) : v \in BatchVersions}, MaxFiles) :
        \A i, j \in 1..Len(d) : d[i].file_name = d[j].file_name => i = j}

BatchLibraries ==
    {MojangLibrary(Alpha,
                   MojangLibraryDownloads(Some(Artifact("s1", "u1")), NoClassifiers),
                   rules, <<>>, <<>>) :
        rules \in {<<>>, <<AllowAll, AllowAll, AllowAll>>}}

InitBatch ==
    /\ IdleGradle
    /\ IdleRules
    /\ IdleProcess
    /\ dir \in Directories
    /\ file_i = 0
    /\ index = <<>>
    /\ batch_pc = "loop"
    /\ batch_error = None
    /\ index_json = None

NextBatch ==
    \/ NextFile
    \/ Begin
    \/ \E lib \in BatchLibraries : BeginLibrary(lib)
    \/ AddArtifact
    \/ Assemble
    \/ EndFile
    \/ WriteIndex

\* process over the directories of Directories
SpecBatch == InitBatch /\ [][NextBatch]_vars

---------------------------------------------------------------------------
\* process_version over log4j libraries

Log4jArtifacts == {"log4j-core", "log4j-api", "log4j-slf4j18-impl", "log4j-slf4j-impl"}

Log4jVersions ==
    {"2.0-beta9", "2.0-rc2", "2.7", "2.8.0", "2.16.0", "2.17.0", "2.17.1"}

Log4j(artifact, ver) ==
    GradleSpecifier("org.apache.logging.log4j", artifact, ver, None, "jar")

OriginalArtifact == Artifact("orig", "https://libraries.minecraft.net/orig.jar")

Log4jLibraries ==
    {MojangLibrary(Log4j(a, v),
                   MojangLibraryDownloads(Some(OriginalArtifact), NoClassifiers),
                   <<>>, <<>>, <<>>) :
        a \in Log4jArtifacts, v \in Log4jVersions}
    \cup
    {MojangLibrary(Log4j(a, v), MojangLibraryDownloads(None, NativeClassifiers),
                   <<>>, <<>>, nat) :
        a \in {"log4j-core", "log4j-slf4j-impl"}, v \in {"2.0-beta9", "2.16.0"},
        nat \in {<<>>, NativesLinux}}
    \cup
    {MojangLibrary(GradleSpecifier("com.google.guava", "guava", "2.10.0", None, "jar"),
                   MojangLibraryDownloads(Some(OriginalArtifact), NoClassifiers),
                   <<>>, <<>>, <<>>)}

InitLog4j ==
    /\ IdleGradle
    /\ IdleRules
    /\ InitProcess
    /\ IdleBatch
    /\ IsNone(version.inherits_from)
    /\ IsSome(version.downloads)

NextLog4j ==
    \/ Begin
    \/ \E lib \in Log4jLibraries : BeginLibrary(lib)
    \/ AddArtifact
    \/ ProcessNative
    \/ Assemble

\* process_version over the libraries of Log4jLibraries
SpecLog4j == InitLog4j /\ [][NextLog4j]_vars

---------------------------------------------------------------------------
\* GradleSpecifier: the round trip

\* the value the round trip returned is the coordinate that was formatted
RoundTrips ==
    /\ IsOk(Unwrap(parsed))
    /\ Unwrap(parsed)[2] = coord

\* no delimiter of the notation inside a field where from_str would split on it
Unambiguous(c) ==
    /\ ~Contains(c.group, ":")
    /\ ~Contains(c.artifact, ":")
    /\ ~Contains(c.version, ":")
    /\ ~Contains(c.extension, "@")
    /\ c.extension = "jar" =>
            /\ ~Contains(c.version, "@")
            /\ IsSome(c.classifier) => ~Contains(Unwrap(c.classifier), "@")

\* C1, as claimed: for every GradleSpecifier c, parse(format(c)) == c
C1_RoundTripOfEveryCoordinate == IsSome(parsed) => RoundTrips

\* C1, amended: parse(format(c)) == c exactly for the coordinates whose group,
\* artifact and version hold no ':', whose extension holds no '@', and, when
\* the extension is "jar", whose version and classifier hold no '@'
C1_RoundTripOfUnambiguousCoordinates ==
    IsSome(parsed) => (RoundTrips <=> Unambiguous(coord))

\* a coordinate with a classifier and an extension other than "jar", having
\* an '@' in its version, has made the round trip
C1_Witness ==
    /\ IsSome(parsed)
    /\ RoundTrips
    /\ IsSome(coord.classifier)
    /\ coord.extension = "a"
    /\ coord.version = "@"

---------------------------------------------------------------------------
\* evaluate_rules_os_name

\* the rule's OS name is absent or names os
MatchesOs(rule, os) ==
    \/ IsNone(rule.os)
    \/ IsNone(Unwrap(rule.os).name)
    \/ Unwrap(Unwrap(rule.os).name) = os

\* the index of the last rule matching os, 0 when no rule matches it
LastMatching(rules, os) ==
    LET hits == {i \in 1..Len(rules) : MatchesOs(rules[i], os)}
    IN  IF hits = {} THEN 0 ELSE CHOOSE i \in hits : \A j \in hits : j <= i

InSeq(seq, x) == \E i \in 1..Len(seq) : seq[i] = x

\* seq lists elements of OsNames, each at most once, in the order of OsNames
InOsOrder(seq) ==
    \A i, j \in 1..Len(seq) :
        i < j => \E a, b \in 1..3 : a < b /\ OsNames[a] = seq[i] /\ OsNames[b] = seq[j]

\* C2: an OS is in the result exactly when the last rule matching it is an
\* Allow, and is absent when no rule matches it; the result keeps the order
\* Linux, Osx, Windows
C2_LastMatchingRuleDecides ==
    (IsSome(rules_out) /\ IsOk(Unwrap(rules_out))) =>
        LET result == Unwrap(rules_out)[2]
        IN  /\ \A os \in OsNameSet :
                    InSeq(result, os) <=>
                        /\ LastMatching(rules_in, os) /= 0
                        /\ rules_in[LastMatching(rules_in, os)].action = "Allow"
            /\ \A i \in 1..Len(result) : result[i] \in OsNameSet
            /\ InOsOrder(result)

\* an Allow for every OS followed by a Disallow naming Osx has been evaluated:
\* the later rule has overridden the earlier one for Osx alone
C2_Witness ==
    /\ Len(rules_in) = 2
    /\ rules_in[1].action = "Allow"
    /\ IsNone(rules_in[1].os)
    /\ rules_in[2].action = "Disallow"
    /\ IsSome(rules_in[2].os)
    /\ Unwrap(rules_in[2].os).name = Some("Osx")
    /\ rules_out = Some(Ok(<<"Linux", "Windows">>))

HasArch(rule) == IsSome(rule.os) /\ IsSome(Unwrap(rule.os).arch)
HasVersion(rule) == IsSome(rule.os) /\ IsSome(Unwrap(rule.os).version)
HasFeatures(rule) == IsSome(rule.features)
Unsupported(rule) == HasArch(rule) \/ HasVersion(rule) \/ HasFeatures(rule)

\* the first unsupported predicate a rule carries
FirstPredicate(rule) ==
    IF HasArch(rule) THEN "os.arch"
    ELSE IF HasVersion(rule) THEN "os.version"
    ELSE "features"

\* the least element of a non-empty set of indices
Least(S) == CHOOSE i \in S : \A j \in S : i <= j

FailsExactlyOnUnsupported ==
    IsErr(Unwrap(rules_out)) <=> \E i \in 1..Len(rules_in) : Unsupported(rules_in[i])

MetForLinux(rules) ==
    {i \in 1..Len(rules) :
        \/ HasArch(rules[i])
        \/ HasVersion(rules[i])
        \/ (HasFeatures(rules[i]) /\ MatchesOs(rules[i], "Linux"))}

---------------------------------------------------------------------------
\* process_version: the rule list of a library

MultipleRules == "Multiple rules not handled currently"

\* at most one rule, or two rules whose first is an unconditional Allow
ShapeAccepted(rules) ==
    \/ Len(rules) <= 1
    \/ (Len(rules) = 2 /\ rules[1] = Rule(None, None, "Allow"))

\* C4: a library whose rule list has another shape than at most one rule, or
\* two rules led by an unconditional Allow, ends the processing with the
\* "multiple rules" error, and that error has no other cause
C4_RuleListShape ==
    IsSome(lib_in) =>
        (~ShapeAccepted(Unwrap(lib_in).rules)
            <=> (pc = "failed" /\ error = Some(MultipleRules)))

\* a list of two rules led by an Allow that carries a feature predicate has
\* been refused
C4_Witness ==
    /\ IsSome(lib_in)
    /\ Len(Unwrap(lib_in).rules) = 2
    /\ Unwrap(lib_in).rules[1].action = "Allow"
    /\ IsNone(Unwrap(lib_in).rules[1].os)
    /\ IsSome(Unwrap(lib_in).rules[1].features)
    /\ pc = "failed"
    /\ error = Some(MultipleRules)

---------------------------------------------------------------------------
\* process_version: the download ledger

\* the add_download call the next step makes: Option<(name, artifact)>
PendingAdd ==
    IF pc = "artifact" /\ IsSome(Unwrap(library).downloads.artifact)
    THEN Some(<<Unwrap(library).name, Unwrap(Unwrap(library).downloads.artifact)>>)
    ELSE IF pc = "native"
    THEN LET lib == Unwrap(library)
             os == lib.natives[nat_i + 1][1]
             call == native_calls(lib.natives[nat_i + 1][2])[nat_k + 1]
         IN  IF /\ platform_admits(platform, os)
                /\ ~Contains(call[1], "$")
                /\ call[1] \in DOMAIN lib.downloads.classifiers
             THEN Some(<<with_classifier(lib.name, call[1]),
                         lib.downloads.classifiers[call[1]]>>)
             ELSE None
    ELSE None

\* the entries of the ledger for a coordinate
EntriesOf(name) == {i \in 1..Len(downloads) : downloads[i][1] = name}

OneEntryPerCoordinate ==
    \A i, j \in 1..Len(downloads) : downloads[i][1] = downloads[j][1] => i = j

\* an insert of a coordinate already present: with the stored hash it goes
\* through and the ledger is left as it was, with another hash it fails
RepeatedInsert ==
    (IsSome(PendingAdd) /\ EntriesOf(Unwrap(PendingAdd)[1]) /= {}) =>
        LET name == Unwrap(PendingAdd)[1]
            artifact == Unwrap(PendingAdd)[2]
            stored == downloads[CHOOSE i \in EntriesOf(name) : TRUE][2]
        IN  IF stored.hash = SHA1(artifact.sha1)
            THEN /\ pc' \notin {"failed", "panicked"}
                 /\ downloads' = downloads
                 /\ Cardinality(EntriesOf(name)) = 1
            ELSE /\ pc' = "failed"
                 /\ IsSome(error')
                 /\ downloads' = downloads

\* C5: a repeated insert succeeds and leaves one entry when the hashes are
\* equal, and fails the processing when they differ; the ledger never holds
\* two entries for one coordinate
C5_RepeatedInsert == []OneEntryPerCoordinate /\ [][RepeatedInsert]_vars

\* a coordinate already in the ledger has been inserted again with the same
\* hash, and the processing goes on
C5_Witness ==
    /\ last_add = "present"
    /\ pc \in {"library", "native"}
    /\ Len(downloads) >= 2
    /\ OneEntryPerCoordinate

IsPrefix(a, b) == Len(a) <= Len(b) /\ SubSeq(b, 1, Len(a)) = a

\* the ledger only grows, at its end, by one entry
LedgerGrowsAtEnd ==
    /\ IsPrefix(downloads, downloads')
    /\ Len(downloads') <= Len(downloads) + 1

\* from the loop on, the first entry is the game client artifact
ClientFirst ==
    pc \in {"library", "artifact", "native", "done"} =>
        /\ Len(downloads) >= 1
        /\ downloads[1][1] = game_artifact_name(version)
        /\ downloads[1][2].name = game_artifact_name(version)

\* the component lists the values of the ledger in the order of the ledger
ComponentListsLedger ==
    IsSome(component) =>
        /\ Len(Unwrap(component).downloads) = Len(downloads)
        /\ \A i \in 1..Len(downloads) :
                /\ Unwrap(component).downloads[i] = downloads[i][2]
                /\ Unwrap(component).downloads[i].name = downloads[i][1]
        /\ Unwrap(component).downloads[1].name = Unwrap(Unwrap(component).game_jar)

\* C6: no step moves, replaces or removes an entry of the ledger: an entry
\* keeps the place its coordinate first took, the client artifact the first,
\* and the component's download list is the ledger in that order
C6_FirstSeenOrder ==
    /\ [][LedgerGrowsAtEnd]_vars
    /\ []ClientFirst
    /\ []ComponentListsLedger
    /\ []OneEntryPerCoordinate

\* a component has been assembled from a ledger of at least four entries,
\* the last insert before it being one of a coordinate already present
C6_Witness ==
    /\ IsSome(component)
    /\ last_add = "present"
    /\ Len(Unwrap(component).downloads) >= 4

---------------------------------------------------------------------------
\* process_version: the natives of a library

\* the entries of the first n entries of lib.natives that the platform admits
AdmittedEntries(lib, n) ==
    {j \in 1..n : platform_admits(platform, lib.natives[j][1])}

\* the native entries the source prescribes for an entry of lib.natives
ExpectedNatives(lib, j) ==
    LET os == lib.natives[j][1]
        classifier == lib.natives[j][2]
    IN  IF Contains(classifier, "${arch}")
        THEN {Native(with_classifier(lib.name, replace(classifier, "${arch}", "32")),
                     Platform(<<os>>, Some("X86")), lib.extract.exclude),
              Native(with_classifier(lib.name, replace(classifier, "${arch}", "64")),
                     Platform(<<os>>, Some("X86_64")), lib.extract.exclude)}
        ELSE {Native(with_classifier(lib.name, classifier),
                     Platform(<<os>>, None), lib.extract.exclude)}

NativeSet == {natives[i] : i \in 1..Len(natives)}

\* every admitted entry of the current library that has been handled has its
\* two entries (templated classifier), or its one entry, in the native set
HandledEntriesYield ==
    (pc \in {"library", "native", "done"} /\ IsSome(library)) =>
        \A j \in AdmittedEntries(Unwrap(library), nat_i) :
            /\ ExpectedNatives(Unwrap(library), j) \subseteq NativeSet
            /\ Cardinality(ExpectedNatives(Unwrap(library), j)) =
                    IF Contains(Unwrap(library).natives[j][2], "${arch}")
                    THEN 2 ELSE 1

\* a step adds to the native set nothing but an entry prescribed for the
\* entry of library.natives being handled, and at most one
YieldsNothingElse ==
    LET new == {natives'[i] : i \in 1..Len(natives')} \ NativeSet
    IN  /\ IsPrefix(natives, natives')
        /\ Cardinality(new) <= 1
        /\ new /= {} =>
                /\ pc = "native"
                /\ nat_i + 1 \in AdmittedEntries(Unwrap(library), nat_i + 1)
                /\ new \subseteq ExpectedNatives(Unwrap(library), nat_i + 1)

\* C7: an admitted native classifier holding ${arch} yields the entry with
\* 32 tagged X86 and the entry with 64 tagged X86_64 for its OS, one without
\* it yields one entry with no architecture, and nothing else is yielded
C7_NativeEntries == []HandledEntriesYield /\ [][YieldsNothingElse]_vars

\* the Windows classifier natives-windows-${arch} of the current library has
\* been handled: both of its entries are in the native set
C7_Witness ==
    /\ pc \in {"library", "native"}
    /\ IsSome(library)
    /\ nat_i >= 1
    /\ Unwrap(library).natives[nat_i] = <<"Windows", "natives-windows-${arch}">>
    /\ \E i, j \in 1..Len(natives) :
            /\ natives[i].name = with_classifier(Unwrap(library).name, "natives-windows-32")
            /\ natives[i].platform = Platform(<<"Windows">>, Some("X86"))
            /\ natives[j].name = with_classifier(Unwrap(library).name, "natives-windows-64")
            /\ natives[j].platform = Platform(<<"Windows">>, Some("X86_64"))

---------------------------------------------------------------------------
\* process_version: the log4j patch

\* the versions of Log4jVersions v with 2.8.0 <= v < 2.17.0
VulnerableVersions == {"2.8.0", "2.16.0"}

IsLog4j(lib) == Contains(lib.name.artifact, "log4j")

\* the URL of a log4j module at version 2.17.0 on libraries.minecraft.net
CorrectedUrl(module) ==
    "https://libraries.minecraft.net/org/apache/logging/log4j/"
        \o module \o "/2.17.0/" \o module \o "-2.17.0.jar"

IsBetaOrRc(lib) ==
    lib.name.artifact = "log4j-core" /\ lib.name.version \in {"2.0-beta9", "2.0-rc2"}

\* C8: a log4j library is re-versioned to 2.17.0 exactly when its version is
\* in [2.8.0, 2.17.0), and its download URL is then the one of that module at
\* 2.17.0 on libraries.minecraft.net; a log4j library outside the range that
\* is not one of the two patched log4j-core pre-releases, and a library that
\* is not log4j, is left as it was read
C8_Log4jUpgrade ==
    IsSome(lib_in) =>
        LET read == Unwrap(lib_in)
            now == Unwrap(library)
            vulnerable == IsLog4j(read) /\ read.name.version \in VulnerableVersions
        IN  /\ now.name.version = IF vulnerable THEN "2.17.0" ELSE read.name.version
            /\ (vulnerable /\ IsSome(read.downloads.artifact)) =>
                    Unwrap(now.downloads.artifact).url = CorrectedUrl(read.name.artifact)
            /\ (~vulnerable /\ ~IsBetaOrRc(read)) => now = read

\* log4j-api at 2.8.0, the lower bound, has been re-versioned and its URL
\* rewritten, and the processing goes on
C8_Witness ==
    /\ IsSome(lib_in)
    /\ Unwrap(lib_in).name = Log4j("log4j-api", "2.8.0")
    /\ pc = "artifact"
    /\ Unwrap(library).name = Log4j("log4j-api", "2.17.0")
    /\ Unwrap(Unwrap(library).downloads.artifact).url = CorrectedUrl("log4j-api")

Beta9Patched ==
    MojangLibraryArtifact("path", "db59ef51488f7ea6a2fd1a0bd8d862cf95f02b7a", 677741,
        "https://files.helixlauncher.dev/maven/org/apache/logging/log4j/log4j-core/2.0-beta9/log4j-core-2.0-beta9.jar")

IsBeta9WithArtifact(lib) ==
    /\ lib.name.artifact = "log4j-core"
    /\ lib.name.version = "2.0-beta9"
    /\ IsSome(lib.downloads.artifact)

\* C9: a log4j-core library at 2.0-beta9 with a download artifact keeps its
\* version and has the descriptor rewritten to the patched SHA-1, size and
\* URL; once its artifact is handled, the ledger holds its coordinate with the
\* patched SHA-1, and the entry an insert has just made is the patched
\* descriptor
C9_Beta9Patched ==
    (IsSome(lib_in) /\ IsBeta9WithArtifact(Unwrap(lib_in))) =>
        LET now == Unwrap(library)
        IN  /\ now.name = Unwrap(lib_in).name
            /\ pc /= "panicked"
            /\ now.downloads.artifact =
                    Some([Beta9Patched EXCEPT
                            !.path = Unwrap(Unwrap(lib_in).downloads.artifact).path])
            /\ pc \in {"library", "native", "done"} =>
                    /\ contains_key(downloads, now.name)
                    /\ get(downloads, now.name).hash = SHA1(Beta9Patched.sha1)
                    /\ last_add = "inserted" =>
                            get(downloads, now.name) =
                                Download(now.name, Beta9Patched.url,
                                         Beta9Patched.size,
                                         SHA1(Beta9Patched.sha1))

\* the patched descriptor of log4j-core 2.0-beta9 has just entered the ledger
C9_Witness ==
    /\ IsSome(lib_in)
    /\ IsBeta9WithArtifact(Unwrap(lib_in))
    /\ pc = "library"
    /\ last_add = "inserted"
    /\ get(downloads, Log4j("log4j-core", "2.0-beta9")).size = 677741

\* the (artifact, version) pairs the correction table has a row for
CorrectionRows ==
    {<<"log4j-core", "2.17.0">>, <<"log4j-slf4j18-impl", "2.17.0">>,
     <<"log4j-api", "2.17.0">>, <<"log4j-core", "2.0-beta9">>,
     <<"log4j-core", "2.0-rc2">>}

\* a log4j library that requires a patch the table has no row for
Unpatchable(lib) ==
    /\ IsLog4j(lib)
    /\ \/ /\ lib.name.version \in VulnerableVersions
          /\ <<lib.name.artifact, "2.17.0">> \notin CorrectionRows
       \/ /\ IsBetaOrRc(lib)
          /\ <<lib.name.artifact, lib.name.version>> \notin CorrectionRows

\* C10: a log4j library that requires a patch the table has no row for ends
\* the processing: no component is assembled after it, and no native entry
\* named after it is recorded
C10_UnpatchableFails ==
    (IsSome(lib_in) /\ Unpatchable(Unwrap(lib_in))) =>
        /\ pc /= "done"
        /\ \A i \in 1..Len(natives) :
                ~(/\ natives[i].name.artifact = Unwrap(library).name.artifact
                  /\ natives[i].name.version = Unwrap(library).name.version)

---------------------------------------------------------------------------
\* C11

\* the game arguments of the version being processed
Game == IF IsSome(version.arguments) THEN Unwrap(version.arguments).game ELSE <<>>

\* the pieces of the legacy argument string of the version being processed
LegacyPieces ==
    IF IsSome(version.minecraft_arguments)
    THEN split(Unwrap(version.minecraft_arguments), " ") ELSE <<>>

\* the text holds a ${name} placeholder, name made of letters, digits and
\* underscores, that the substitution table does not have
HasUnknownToken(t) ==
    \E i \in 1..Len(t) :
        /\ MatchEnd(t, i) /= 0
        /\ SubSeq(t, i, MatchEnd(t, i)) \notin TableTokens

\* the texts process_version rewrites unconditionally
AlwaysTexts ==
    {Game[i].argument : i \in {j \in 1..Len(Game) : Game[j].kind = "Always"}}
    \cup {LegacyPieces[i] : i \in 1..Len(LegacyPieces)}

\* the last game argument is before \o token \o after and the last argument of
\* the component is before \o to \o after
LastRewritten(before, token, after, to) ==
    (/\ Game /= <<>>
     /\ Game[Len(Game)] = MojangAlways(before \o token \o after)
     /\ IsNone(version.minecraft_arguments))
    => /\ component[1].game_arguments /= <<>>
       /\ component[1].game_arguments[Len(component[1].game_arguments)]
            = Always(before \o to \o after)

\* C11: in the component, ${auth_player_name} has become ${user.name} and every
\* other token of the table its replacement, the text around it unchanged; and
\* a version with a rewritten argument that holds a placeholder the table does
\* not have yields no component
C11_ArgumentRewriting ==
    /\ pc = "done" =>
        \A before \in {"", "--opt="}, after \in {"", "/x"} :
            /\ LastRewritten(before, "${auth_player_name}", after, "${user.name}")
            /\ \A token \in TableTokens :
                    LastRewritten(before, token, after, var_table(version)[token])
    /\ (\E t \in AlwaysTexts : HasUnknownToken(t)) =>
            /\ pc /= "done"
            /\ IsNone(component)

C11_Witness ==
    /\ pc = "panicked"
    /\ error = Some("--opt=${totally_unknown}/x not supported")
    /\ Len(Game) = 2
    /\ Game[2] = MojangAlways("--opt=${totally_unknown}/x")

---------------------------------------------------------------------------
\* C15

\* the feature predicates of a block that are set
SetPredicates(features) == {k \in DOMAIN features : IsSome(features[k])}

\* argument a is conditional on one Allow rule without OS predicate that
\* carries a features block
IsFeatureGated(a) ==
    /\ a.kind = "Conditional"
    /\ Len(a.rules) = 1
    /\ a.rules[1].action = "Allow"
    /\ IsNone(a.rules[1].os)
    /\ IsSome(a.rules[1].features)

\* C15: a version with a conditional game argument whose rule sets more than
\* one feature predicate is never turned into a component
C15_SeveralPredicatesFail ==
    (\E i \in 1..Len(Game) :
        /\ IsFeatureGated(Game[i])
        /\ Cardinality(SetPredicates(Unwrap(Game[i].rules[1].features))) >= 2)
    => pc /= "done"

---------------------------------------------------------------------------
\* C16

\* exactly one rule, an Allow without OS predicate, with a feature predicate set
ShapeOk(a) ==
    /\ IsFeatureGated(a)
    /\ SetPredicates(Unwrap(a.rules[1].features)) /= {}

\* C16: a version with a conditional game argument of another shape ends in an
\* error or a panic, without a component and so without an argument
C16_ConditionalShape ==
    /\ (\E i \in 1..Len(Game) : Game[i].kind = "Conditional" /\ ~ShapeOk(Game[i]))
        => pc /= "done"
    /\ pc \in {"failed", "panicked"} => IsNone(component) /\ IsSome(error)

C16_Witness ==
    /\ pc = "failed"
    /\ error = Some("Condition failed: rules[0].os.is_none()")
    /\ \E i \in 1..Len(Game) : Game[i].kind = "Conditional" /\ ~ShapeOk(Game[i])

---------------------------------------------------------------------------
\* C17

\* the rule of argument a sets exactly one feature predicate, to true
OnePredicate(a) ==
    /\ IsFeatureGated(a)
    /\ Cardinality(SetPredicates(Unwrap(a.rules[1].features))) = 1
    /\ \A k \in SetPredicates(Unwrap(a.rules[1].features)) :
            Unwrap(Unwrap(a.rules[1].features)[k])

ThePredicate(a) ==
    CHOOSE k \in SetPredicates(Unwrap(a.rules[1].features)) : TRUE

\* the flag each predicate gates by; the two quick-play predicates without a
\* flag are absent
FlagOf ==
    [is_demo_user |-> "Demo", has_custom_resolution |-> "CustomResolution",
     is_quick_play_singleplayer |-> "QuickPlayWorld",
     is_quick_play_multiplayer |-> "QuickPlayServer"]

TraitsOf ==
    [is_demo_user |-> {},
     has_custom_resolution |-> {"SupportsCustomResolution"},
     is_quick_play_singleplayer |-> {"SupportsQuickPlayWorld"},
     is_quick_play_multiplayer |-> {"SupportsQuickPlayServer"},
     has_quick_plays_support |-> {}, is_quick_play_realms |-> {}]

\* the arguments a one-predicate argument is to yield
ExpectedOf(a) ==
    IF ThePredicate(a) \in DOMAIN FlagOf
    THEN [j \in 1..Len(a.value) |->
            Conditional(remap_vars(a.value[j], version).out, FlagOf[ThePredicate(a)])]
    ELSE <<>>

RECURSIVE ExpectedFrom(_)
ExpectedFrom(i) ==
    IF i > Len(Game) THEN <<>> ELSE ExpectedOf(Game[i]) \o ExpectedFrom(i + 1)

\* every game argument is a one-predicate conditional with values free of
\* unknown placeholders, and there is no legacy argument string
OnePredicateVersion ==
    /\ Game /= <<>>
    /\ IsNone(version.minecraft_arguments)
    /\ \A i \in 1..Len(Game) :
            /\ OnePredicate(Game[i])
            /\ \A j \in 1..Len(Game[i].value) : ~HasUnknownToken(Game[i].value[j])

\* C17: the arguments of such a version are gated by Demo, CustomResolution,
\* QuickPlayWorld and QuickPlayServer as the predicate says, the last three
\* record their trait, is_quick_play_realms and has_quick_plays_support yield
\* nothing, and none of them ends the processing
C17_FeatureFlags ==
    OnePredicateVersion =>
        /\ pc \notin {"failed", "panicked"}
        /\ pc = "done" =>
            /\ component[1].game_arguments = ExpectedFrom(1)
            /\ component[1].traits =
                  lwjgl_traits(is_lwjgl3)
                    \cup UNION {TraitsOf[ThePredicate(Game[i])] : i \in 1..Len(Game)}

C17_Witness ==
    /\ pc = "done"
    /\ OnePredicateVersion
    /\ Len(Game) = 2
    /\ ThePredicate(Game[1]) = "is_quick_play_realms"
    /\ ThePredicate(Game[2]) = "is_quick_play_singleplayer"
    /\ component[1].game_arguments = <<Conditional("--flag", "QuickPlayWorld")>>
    /\ component[1].traits = {"MacStartOnFirstThread", "SupportsQuickPlayWorld"}

---------------------------------------------------------------------------
\* C12

\* an artifact for every platform: no rules, no natives
IsUniversal(lib) ==
    /\ IsSome(lib.downloads.artifact)
    /\ lib.rules = <<>>
    /\ lib.natives = <<>>

\* nothing but one native classifier, for Windows
IsWindowsNativeOnly(lib) ==
    /\ IsNone(lib.downloads.artifact)
    /\ lib.rules = <<>>
    /\ Len(lib.natives) = 1
    /\ lib.natives[1][1] = "Windows"
    /\ ~Contains(lib.natives[1][2], "${arch}")

\* the version had two libraries: universal is one, the other carries only a
\* Windows native classifier
MinimalDescriptor(universal) ==
    /\ Len(seen) = 2
    /\ \E a, b \in 1..2 :
            /\ a /= b
            /\ seen[a] = universal
            /\ IsUniversal(seen[a])
            /\ IsWindowsNativeOnly(seen[b])

\* C12: the component of such a version has one classpath entry, the universal
\* library for all platforms, and one native entry, for Windows
C12_MinimalDescriptor ==
    \A universal \in Libraries :
        (pc = "done" /\ MinimalDescriptor(universal)) =>
            /\ component[1].classpath = <<All(universal.name)>>
            /\ Len(component[1].natives) = 1
            /\ component[1].natives[1].platform.os = <<"Windows">>

C12_Witness ==
    /\ pc = "done"
    /\ \E universal \in Libraries : MinimalDescriptor(universal)
    /\ component[1].classpath = <<All(Alpha)>>
    /\ component[1].natives =
          <<Native(with_classifier(Beta, "natives-windows"),
                   Platform(<<"Windows">>, None), <<>>)>>

---------------------------------------------------------------------------
\* C18

\* the LWJGL carve-out: a library of the org.lwjgl family with an
\* unconditional Allow followed by a Disallow that names an OS
LwjglPair(lib) ==
    /\ StartsWith(lib.name.group, "org.lwjgl")
    /\ Len(lib.rules) = 2
    /\ lib.rules[1] = AllowAll
    /\ lib.rules[2].action = "Disallow"
    /\ IsSome(lib.rules[2].os)
    /\ IsSome(Unwrap(lib.rules[2].os).name)

\* the platform of the library is unconstrained, or its rules evaluate to a
\* list that holds os
OsAdmitted(lib, os) ==
    IF lib.rules = <<>> THEN TRUE
    ELSE IF LwjglPair(lib) THEN TRUE
    ELSE /\ IsOk(evaluate_rules_os_name(lib.rules))
         /\ InSeq(evaluate_rules_os_name(lib.rules)[2], os)

\* a step of the natives loop adds a native or a download only for an OS
\* that is admitted, and passes over the entry of any other OS
NativeStepAdmitted ==
    pc = "native" =>
        /\ (natives' /= natives \/ downloads' /= downloads) =>
                OsAdmitted(Unwrap(lib_in), Unwrap(lib_in).natives[nat_i + 1][1])
        /\ ~OsAdmitted(Unwrap(lib_in), Unwrap(lib_in).natives[nat_i + 1][1]) =>
                /\ natives' = natives
                /\ downloads' = downloads
                /\ nat_i' = nat_i + 1
                /\ pc' \in {"native", "library"}

\* C18: a native entry, and its download, is generated for an OS only if the
\* platform of the library is unconstrained or the evaluation of its rules
\* holds that OS
C18_NativesFollowPlatform == [][NativeStepAdmitted]_vars

\* the Windows entry of a library allowed on Linux only has been passed over
C18_Witness ==
    /\ pc = "library"
    /\ IsSome(lib_in)
    /\ Unwrap(lib_in).rules = <<AllowOs("Linux")>>
    /\ Unwrap(lib_in).natives = NativesBoth
    /\ nat_i = 2
    /\ Len(natives) = 1
    /\ natives[1].platform.os = <<"Linux">>
    /\ Len(downloads) = 2

---------------------------------------------------------------------------
\* C19

\* the same two rules on a library outside the family
OtherPair(lib) ==
    /\ ~StartsWith(lib.name.group, "org.lwjgl")
    /\ Len(lib.rules) = 2
    /\ lib.rules[1] = AllowAll
    /\ \E o \in OsNameSet : lib.rules[2] = DisallowOs(o)

\* every OS but the one the Disallow names, in the order of the evaluator
OsesBut(o) == SelectSeq(OsNames, LAMBDA x : x /= o)

Placed == pc \in {"native", "library", "done"}

\* C19: for the LWJGL pair the rules are not evaluated (no platform, no
\* evaluation error), the classpath entry is All and every entry of the natives
\* map yields its natives; for the same pair elsewhere the platform is the
\* evaluated OS list and the classpath entry PlatformSpecific
C19_LwjglPairIgnoresRules ==
    /\ (IsSome(lib_in) /\ LwjglPair(Unwrap(lib_in))) =>
        /\ pc \in {"artifact", "native", "library", "done"} => IsNone(platform)
        /\ pc = "failed" => ~StartsWith(Unwrap(error), "Unsupported feature")
        /\ (Placed /\ IsSome(Unwrap(lib_in).downloads.artifact)) =>
                InSeq(classpath, All(Unwrap(lib_in).name))
        /\ pc \in {"library", "done"} =>
                \A j \in 1..Len(Unwrap(lib_in).natives) :
                    ExpectedNatives(Unwrap(lib_in), j) \subseteq NativeSet
    /\ (IsSome(lib_in) /\ OtherPair(Unwrap(lib_in))) =>
        /\ pc \in {"artifact", "native", "library", "done"} =>
                platform =
                    Some(Platform(OsesBut(Unwrap(Unwrap(Unwrap(lib_in).rules[2].os).name)),
                                  None))
        /\ (Placed /\ IsSome(Unwrap(lib_in).downloads.artifact)) =>
                InSeq(classpath,
                      PlatformSpecific(
                          Unwrap(lib_in).name,
                          Platform(OsesBut(Unwrap(Unwrap(Unwrap(lib_in).rules[2].os).name)),
                                   None)))

\* the LWJGL library whose second rule disallows Windows has its Windows
\* natives, and the one with an artifact its All entry
C19_Witness ==
    /\ pc = "library"
    /\ Len(seen) = 2
    /\ LwjglPair(seen[1])
    /\ seen[1].name = Lwjgl
    /\ InSeq(classpath, All(Lwjgl))
    /\ LwjglPair(seen[2])
    /\ seen[2].rules = <<AllowAll, DisallowOs("Windows")>>
    /\ \E i \in 1..Len(natives) : natives[i].platform.os = <<"Windows">>

---------------------------------------------------------------------------
\* C20

\* a library of the org.lwjgl family with one rule, an Allow that names o
LwjglSingle(lib, o) ==
    /\ StartsWith(lib.name.group, "org.lwjgl")
    /\ lib.rules = <<AllowOs(o)>>

HasNativesClassifier(lib) ==
    /\ IsSome(lib.name.classifier)
    /\ Contains(Unwrap(lib.name.classifier), "natives")

\* the iteration of such a library without a natives classifier ends at once,
\* with nothing added
DroppedAtOnce ==
    (/\ n_libs' = n_libs + 1
     /\ \E o \in OsNameSet : LwjglSingle(Unwrap(lib_in'), o)
     /\ ~HasNativesClassifier(Unwrap(lib_in')))
    => /\ pc' = "library"
       /\ classpath' = classpath
       /\ downloads' = downloads
       /\ natives' = natives

\* such a library with a natives classifier is on the classpath for o alone
KeptForItsOs ==
    \A o \in OsNameSet :
        (/\ IsSome(lib_in)
         /\ LwjglSingle(Unwrap(lib_in), o)
         /\ HasNativesClassifier(Unwrap(lib_in))
         /\ IsSome(Unwrap(lib_in).downloads.artifact)
         /\ Placed)
        => InSeq(classpath,
                 PlatformSpecific(Unwrap(lib_in).name, Platform(<<o>>, None)))

\* C20: an org.lwjgl library with the single rule Allow-on-one-OS and no
\* natives classifier contributes no classpath entry; with a natives
\* classifier it is kept as PlatformSpecific for that OS
C20_LwjglSingleOs == []KeptForItsOs /\ [][DroppedAtOnce]_vars

\* the only library of the version was dropped
C20_Witness ==
    /\ pc = "done"
    /\ Len(seen) = 1
    /\ LwjglSingle(seen[1], "Osx")
    /\ ~HasNativesClassifier(seen[1])
    /\ IsSome(seen[1].downloads.artifact)
    /\ component[1].classpath = <<>>
    /\ Len(component[1].downloads) = 1

---------------------------------------------------------------------------
\* C13

\* every file of the directory deserializes to a version process_version
\* accepts
AllSucceed == \A i \in 1..Len(dir) : IsNone(dir[i].version.inherits_from)

\* the position in the directory of the file of the version named id
FileOf(id) == CHOOSE i \in 1..Len(dir) : dir[i].version.id = id

\* the written index has one entry per file, each the entry of its version
OneEntryPerFile ==
    /\ Len(index_json[1]) = Len(dir)
    /\ \A i \in 1..Len(dir) :
            \E k \in 1..Len(index_json[1]) :
                /\ index_json[1][k].version = dir[i].version.id
                /\ index_json[1][k].release_time = dir[i].version.release_time

\* C13 as stated: the index of a batch that succeeds has one entry per file
\* and every entry is strictly later than the entry after it
C13_IndexStrictlyDescending ==
    (batch_pc = "done" /\ AllSucceed) =>
        /\ OneEntryPerFile
        /\ \A k \in 1..(Len(index_json[1]) - 1) :
                index_json[1][k].release_time > index_json[1][k + 1].release_time

\* C13: the index of a batch that succeeds has one entry per file, no entry
\* is earlier than the entry after it, and entries of the same release time
\* are in the order of the directory
C13_IndexDescending ==
    (batch_pc = "done" /\ AllSucceed) =>
        /\ OneEntryPerFile
        /\ \A k \in 1..(Len(index_json[1]) - 1) :
                \/ index_json[1][k].release_time > index_json[1][k + 1].release_time
                \/ /\ index_json[1][k].release_time
                        = index_json[1][k + 1].release_time
                   /\ FileOf(index_json[1][k].version)
                        < FileOf(index_json[1][k + 1].version)

\* three files, the latest one read last and the two others of one release
\* time: the latest is first in the index
C13_Witness ==
    /\ batch_pc = "done"
    /\ AllSucceed
    /\ Len(dir) = 3
    /\ dir[1].version.release_time = 1
    /\ dir[2].version.release_time = 1
    /\ dir[3].version.release_time = 2
    /\ index_json[1][1].version = dir[3].version.id
    /\ index_json[1][2].version = dir[1].version.id
    /\ index_json[1][3].version = dir[2].version.id

---------------------------------------------------------------------------
\* C14

\* the versions of the directory that process_version accepts
Accepted == {i \in 1..Len(dir) : IsNone(dir[i].version.inherits_from)}

\* C14: a failing version is reported with the name of its file and the batch
\* goes on: process ends only after the last file, with an index written that
\* holds the versions that succeeded
C14_FailureDoesNotAbort ==
    /\ IsSome(batch_error) =>
            \E i \in 1..Len(dir) : Contains(batch_error[1], dir[i].file_name)
    /\ batch_pc \in {"done", "failed", "panicked"} =>
            /\ file_i = Len(dir)
            /\ IsSome(index_json)
            /\ {index_json[1][k].version : k \in 1..Len(index_json[1])}
                    = {dir[i].version.id : i \in Accepted}

---------------------------------------------------------------------------
\* C21

\* the classifier of the native entry being handled, ${arch} expanded as the
\* call in progress expands it
ExpandedClassifier ==
    replace(Unwrap(lib_in).natives[nat_i + 1][2], "${arch}",
            IF nat_k = 0 THEN "32" ELSE "64")

\* a step of the natives loop on an admitted entry whose expanded classifier
\* holds a '$' fails with the unresolved-pattern error and records nothing
UnresolvedFails ==
    (/\ pc = "native"
     /\ OsAdmitted(Unwrap(lib_in), Unwrap(lib_in).natives[nat_i + 1][1])
     /\ Contains(ExpandedClassifier, "$"))
    => /\ pc' = "failed"
       /\ error' = Some("Unresolved classifier pattern in " \o ExpandedClassifier)
       /\ natives' = natives
       /\ downloads' = downloads
       /\ component' = None

\* no native is recorded under a classifier that holds a '$'
NoUnresolvedNative ==
    \A i \in 1..Len(natives) :
        ~Contains(Unwrap(natives[i].name.classifier), "$")

---------------------------------------------------------------------------
\* C22

\* the number of spaces of s
RECURSIVE Spaces(_)
Spaces(s) ==
    IF s = "" THEN 0
    ELSE (IF SubSeq(s, 1, 1) = " " THEN 1 ELSE 0) + Spaces(SubSeq(s, 2, Len(s)))

\* the text of s between its n-th space and the next one (n = 0: from the
\* start of s)
RECURSIVE PieceAfter(_, _)
PieceAfter(s, n) ==
    IF n = 0
    THEN (IF Find(s, " ") = 0 THEN s ELSE SubSeq(s, 1, Find(s, " ") - 1))
    ELSE PieceAfter(SubSeq(s, Find(s, " ") + 1, Len(s)), n - 1)

\* the number of arguments the structured list of the version yields
StructuredCount ==
    Len(process_arguments([version EXCEPT !.minecraft_arguments = None],
                          {}).arguments)

\* C22: the component of a version with a legacy argument string ends with
\* one unconditional argument per piece between single spaces, rewritten and
\* in order, then the one argument --demo gated by Demo: k pieces add k + 1
\* arguments to those of the structured list
C22_LegacyArguments ==
    (pc = "done" /\ IsSome(version.minecraft_arguments)) =>
        /\ Len(component[1].game_arguments)
                = StructuredCount + Spaces(version.minecraft_arguments[1]) + 2
        /\ \A n \in 0..Spaces(version.minecraft_arguments[1]) :
                component[1].game_arguments[StructuredCount + n + 1]
                    = Always(remap_vars(PieceAfter(version.minecraft_arguments[1], n),
                                        version).out)
        /\ component[1].game_arguments[Len(component[1].game_arguments)]
                = Conditional("--demo", "Demo")

C22_Witness ==
    /\ pc = "done"
    /\ version.minecraft_arguments =
            Some("--username ${auth_player_name}  --session ${auth_session}")
    /\ Game = <<MojangAlways("--username"), MojangAlways("")>>
    /\ component[1].game_arguments =
            <<Always("--username"), Always(""),
              Always("--username"), Always("${user.name}"),
              Always(""), Always("--session"), Always("${user.token}"),
              Conditional("--demo", "Demo")>>

---------------------------------------------------------------------------
\* C23

\* every classpath entry and every native of the two sets, and the game jar
\* when there is one, has an entry in the ledger map
Covered(map, classpath_, natives_, game_jar) ==
    /\ \A i \in 1..Len(classpath_) : contains_key(map, classpath_[i][2])
    /\ \A i \in 1..Len(natives_) : contains_key(map, natives_[i].name)
    /\ IsSome(game_jar) => contains_key(map, Unwrap(game_jar))

\* the download descriptors of a component, keyed by their coordinate
Descriptors(c) == [i \in 1..Len(c.downloads) |-> <<c.downloads[i].name, c.downloads[i]>>]

\* C23: at every point of the library loop every coordinate of the classpath
\* set and of the native set, and the game jar coordinate, has an entry in
\* the download ledger; the assembled component holds a download descriptor
\* for every coordinate it references
C23_LedgerCoversReferences ==
    /\ Covered(downloads, classpath, natives,
               IF pc \in {"library", "artifact", "native", "done"}
               THEN Some(game_artifact_name(version)) ELSE None)
    /\ IsSome(component) =>
            /\ IsSome(component[1].game_jar)
            /\ Covered(Descriptors(component[1]), component[1].classpath,
                       component[1].natives, component[1].game_jar)

C23_Witness ==
    /\ pc = "done"
    /\ InSeq(component[1].classpath, All(Alpha))
    /\ \E i \in 1..Len(component[1].natives) :
            component[1].natives[i].name = AlphaNativesLinux
    /\ contains_key(Descriptors(component[1]), Alpha)
    /\ contains_key(Descriptors(component[1]), AlphaNativesLinux)
    /\ contains_key(Descriptors(component[1]), game_artifact_name(version))

---------------------------------------------------------------------------
\* C24

\* the platform-scoped entries of a classpath set
PlatformScoped(classpath_) ==
    {i \in 1..Len(classpath_) : classpath_[i][1] = "PlatformSpecific"}

\* C24: every PlatformSpecific entry of the classpath set, and of the
\* classpath of the component, has an OS list that is not empty
C24_NoEmptyOsList ==
    /\ \A i \in PlatformScoped(classpath) : classpath[i][3].os /= <<>>
    /\ IsSome(component) =>
            \A i \in PlatformScoped(component[1].classpath) :
                component[1].classpath[i][3].os /= <<>>

---------------------------------------------------------------------------
\* C25

\* the text holds a match of VAR_PATTERN
HasPlaceholder(t) == \E i \in 1..Len(t) : MatchEnd(t, i) /= 0

\* rewriting t again returns, and returns t
RewritesToItself(t) ==
    /\ ~remap_vars(t, version).panicked
    /\ remap_vars(t, version).out = t

\* C25: an argument remap_vars has returned holds no ${name} placeholder, and
\* rewriting it a second time does not fail and changes nothing
C25_NoPlaceholderLeft ==
    pc = "done" =>
        \A i \in 1..Len(component[1].game_arguments) :
            /\ ~HasPlaceholder(component[1].game_arguments[i].value)
            /\ RewritesToItself(component[1].game_arguments[i].value)

===========================================================================
